---- MODULE Spec2Model ----
(***************************************************************************)
(* guu-timetable-bot: the ingestion pipeline (services/fetcher_parser.py), *)
(* the administrative import handlers (app/handlers/admin.py), the session *)
(* helper (app/bot.py) and the schema (db/models.py) as one state machine. *)
(*                                                                         *)
(* Two processes share the store: "cron", the scheduled sync job that runs *)
(* on the one session built at import time (bot.py:230), and "adm", the    *)
(* admin handlers, each call on a fresh session from get_session().  A     *)
(* process moves at its await points; what lies between two awaits is one  *)
(* step.                                                                   *)
(***************************************************************************)
EXTENDS Integers, Sequences, FiniteSets, TLC

VARIABLES
    store,      \* committed rows, one set per table
    txn,        \* per session: rows added or flushed and not yet committed
    sess,       \* per session: "active", or "deactive" after a failed flush
    run,        \* per process: the position and locals of the running call
    served,     \* what the site serves at each listed url (the outside world)
    nruns,      \* calls started so far
    npub,       \* publications so far
    overlap,    \* whether a call may start while the other process is running
    failedBatches, \* history: the batches whose load raised, and with what
    bot,        \* the chat side: user and user_group rows, handler tasks, caches
    calc        \* a parser or helper called by itself: its input, its result

vars == <<store, txn, sess, run, served, nruns, npub, overlap, failedBatches,
          bot, calc>>

\* ------------------------------------------------------------------ bounds
MaxRuns == 2
MaxPublish == 1
MaxCalls == 3
MaxLimit == 3
MaxRoomLen == 4
MaxRows == 3

\* ------------------------------------------------------------ optional values
\* Python's None is the empty tuple, a present value v is <<v>>.
None == <<>>
Some(v) == <<v>>
\* Python truthiness of an optional int or str: None, 0 and "" are falsy.
TruthyInt(o) == o /= None /\ o[1] /= 0
TruthyStr(o) == o /= None /\ o[1] /= ""
TruthySeq(o) == o /= None /\ o[1] /= <<>>

Max(S) == IF S = {} THEN 0 ELSE CHOOSE m \in S : \A x \in S : x <= m

\* ------------------------------------------------------------- the processes
Procs == {"cron", "adm"}

\* --------------------------------------------------------------- the schema
\* Seeded out of band.  Group is unique per (faculty_id, code) only, so one
\* code may live in two faculties.
SeedGroups ==
    { [id |-> 1, faculty_id |-> 1, code |-> "G1"],
      [id |-> 2, faculty_id |-> 1, code |-> "G2"],
      [id |-> 3, faculty_id |-> 2, code |-> "G2"] }

EmptyRows ==
    [source_file |-> {}, lesson |-> {}, teacher |-> {}, room |-> {}, group |-> {}]

\* Violates without the unique index on source_file.sha256.
ViolatesUrlOnly(t, r, rows) ==
    CASE t = "source_file" -> \E x \in rows : x.url = r.url
      [] t = "teacher" -> \E x \in rows : x.name = r.name
      [] t = "room" ->
            \E x \in rows : x.building = r.building /\ x.number = r.number
      [] t = "group" ->
            \E x \in rows : x.faculty_id = r.faculty_id /\ x.code = r.code
      [] OTHER -> FALSE

\* The uniqueness constraints of db/models.py: whether row r of table t
\* collides with one of rows.
Violates(t, r, rows) ==
    CASE t = "source_file" ->
            \E x \in rows : x.url = r.url \/ x.sha256 = r.sha256
      [] t = "teacher" -> \E x \in rows : x.name = r.name
      [] t = "room" ->
            \E x \in rows : x.building = r.building /\ x.number = r.number
      [] t = "group" ->
            \E x \in rows : x.faculty_id = r.faculty_id /\ x.code = r.code
      [] OTHER -> FALSE

\* ------------------------------------------------------- sessions and store
\* What a statement run on session s reads: the committed rows and the rows
\* of its own open transaction.
Visible(s, t) == store[t] \cup txn[s][t]

AllRows(t) == store[t] \cup UNION {txn[s][t] : s \in Procs}

\* autoincrement primary key: one past the largest id in the table.
NextId(t) == Max({r.id : r \in AllRows(t)}) + 1

\* Another session holds uncommitted rows.
OtherWriter(s) == \E q \in Procs \ {s} : txn[q] /= EmptyRows

\* FlushOutcomes of a store that enforces no uniqueness constraint.
FlushOutcomesUnchecked(s, t, r) ==
    IF OtherWriter(s) THEN {"ok", "OperationalError"}
    ELSE {"ok"}

\* The outcomes of INSERTing r into t at a flush of session s.  A collision
\* with a row s can see is an IntegrityError.  A collision with a row another
\* transaction has not committed cannot succeed: the statement waits, and
\* taken now it times out (OperationalError).  While another transaction
\* holds writes a single-writer store (the default sqlite url) may time out
\* as well.
FlushOutcomes(s, t, r) ==
    IF Violates(t, r, Visible(s, t)) THEN {"IntegrityError"}
    ELSE IF \E q \in Procs \ {s} : Violates(t, r, txn[q][t])
         THEN {"OperationalError"}
    ELSE IF OtherWriter(s) THEN {"ok", "OperationalError"}
    ELSE {"ok"}

\* Result.scalar_one_or_none() over the selected ids.
scalar_one_or_none(ids) ==
    IF ids = {} THEN [exc |-> None, v |-> None]
    ELSE IF Cardinality(ids) = 1
         THEN [exc |-> None, v |-> Some(CHOOSE x \in ids : TRUE)]
    ELSE [exc |-> Some("MultipleResultsFound"), v |-> None]

\* ------------------------------------------------- the parsed Lesson record
\* fetcher_parser.Lesson: dates are day numbers, times minutes of the day; a
\* room is its text cut at the hyphens, <<"B", "-", "204">> for B-204.
Lesson(gc, d, t1, t2, subj, teacher, room) ==
    [group_code |-> gc, date |-> d, start_time |-> t1, end_time |-> t2,
     subject |-> subj, teacher |-> teacher, room |-> room]

\* --------------------------------------------------------- files and links
\* The byte contents the outside world can hand over, each with what its
\* parser reads from it: A and B are sound workbooks (B holds the same
\* lesson on two rows), X is a workbook whose
\* second lesson names a group nobody seeded, N a workbook without a group
\* token in its first rows, V a delimited-text file; T is a sound workbook
\* with a lesson of G2, the code two faculties share.
Workbooks == {"A", "B", "X", "N"}
Contents == Workbooks \cup {"V"}

FileOf(c) ==
    CASE c = "A" ->
            [fmt |-> "xlsx", header |-> TRUE, columns |-> TRUE,
             rows |-> << Lesson("G1", 1, 510, 605, "Math", Some("Ivanov"),
                                Some(<<"B", "-", "204">>)),
                         Lesson("G1", 1, 615, 710, "Physics", Some("Ivanov"),
                                None) >>]
      [] c = "B" ->
            [fmt |-> "xlsx", header |-> TRUE, columns |-> TRUE,
             rows |-> << Lesson("G1", 2, 510, 605, "Law", None,
                                Some(<<"101">>)),
                         Lesson("G1", 2, 510, 605, "Law", None,
                                Some(<<"101">>)) >>]
      [] c = "X" ->
            [fmt |-> "xlsx", header |-> TRUE, columns |-> TRUE,
             rows |-> << Lesson("G1", 3, 510, 605, "Math", None, None),
                         Lesson("GX", 3, 510, 605, "Math", None, None) >>]
      [] c = "T" ->
            [fmt |-> "xlsx", header |-> TRUE, columns |-> TRUE,
             rows |-> << Lesson("G1", 6, 510, 605, "Math", None, None),
                         Lesson("G2", 6, 615, 710, "Law", None, None) >>]
      [] c = "N" ->
            [fmt |-> "xlsx", header |-> FALSE, columns |-> TRUE,
             rows |-> << Lesson("G1", 4, 510, 605, "Math", Some("Petrov"),
                                Some(<<"N", "-", "1">>)) >>]
      [] OTHER ->
            [fmt |-> "csv", header |-> FALSE, columns |-> TRUE,
             rows |-> << Lesson("G1", 5, 510, 605, "Law", None, None) >>]

\* hashlib.sha256 over the bytes: one digest per content, no two alike.
sha256_path(c) == <<"sha256", c>>

\* The links of the listing page, in page order.
Links == <<"u1", "u2">>
Urls == {Links[k] : k \in 1..Len(Links)}

\* The url a listed file is recorded under: str(link.url).
LinkUrl(link) == <<"listing:", link>>

\* The values sync's keyword argument limit is given: absent, or a count.
Limits == {None} \cup {Some(n) : n \in 0..MaxLimit}

\* sync's cap: `if limit:` cuts the list for a truthy limit only.
SyncLinks(links, limit) ==
    IF ~TruthyInt(limit) THEN links
    ELSE IF limit[1] >= Len(links) THEN links
    ELSE IF limit[1] >= 0 THEN SubSeq(links, 1, limit[1])
    ELSE IF Len(links) + limit[1] > 0
         THEN SubSeq(links, 1, Len(links) + limit[1])
    ELSE <<>>

\* parse_excel: no group token in the first rows is a RuntimeError, else the
\* lessons of the rows below the header.
\* parse_excel without the check that a header row was found.
parse_excelAnyHeader(c) ==
    IF FileOf(c).fmt /= "xlsx" THEN [exc |-> Some("BadZipFile"), v |-> <<>>]
    ELSE [exc |-> None, v |-> FileOf(c).rows]

parse_excel(c) ==
    IF FileOf(c).fmt /= "xlsx" THEN [exc |-> Some("BadZipFile"), v |-> <<>>]
    ELSE IF ~FileOf(c).header THEN [exc |-> Some("RuntimeError"), v |-> <<>>]
    ELSE [exc |-> None, v |-> FileOf(c).rows]

\* _parse_csv: bytes that are no text, or a header without the required
\* columns, are a ValueError.
parse_csv(c) ==
    IF FileOf(c).fmt /= "csv" \/ ~FileOf(c).columns
    THEN [exc |-> Some("ValueError"), v |-> <<>>]
    ELSE [exc |-> None, v |-> FileOf(c).rows]

\* ------------------------------------------------------- the admin's inputs
\* Who sends: ADMIN_IDS holds the one id.
Senders == {"admin", "stranger"}
ADMIN_IDS == {"admin"}
\* is_admin with every sender let through.
is_adminAnyone(user) == TRUE

is_admin(user) == user \in ADMIN_IDS

\* A file name is its text cut at the dots: <<"sched", "XLSX">> is
\* sched.XLSX, <<"", "csv">> is .csv; a document may carry no name.
FileNames ==
    { Some(<<"sched", "xlsx">>), Some(<<"plan", "XLSX">>),
      Some(<<"rows", "csv">>), Some(<<"notes", "txt">>),
      Some(<<"", "csv">>), Some(<<"xlsx">>), None }

\* str.lower() on the name parts in use.
Lower(w) ==
    CASE w = "XLSX" -> "xlsx"
      [] w = "CSV" -> "csv"
      [] OTHER -> w

\* Path(file_name).suffix.lower(): the text from the last dot on, unless that
\* dot opens or closes the name.
Suffix(name) ==
    LET n == Len(name) IN
    IF n >= 2 /\ name[n] /= "" /\ (n >= 3 \/ name[1] /= "")
    THEN <<".", Lower(name[n])>>
    ELSE <<>>

\* SupportedSuffix with any extension let through.
SupportedSuffixAny(suffix) == suffix /= <<>>

SupportedSuffix(suffix) == suffix \in { <<".", "xlsx">>, <<".", "csv">> }

\* A command's arguments are a url cut at the slashes, or absent.
SheetA == <<"https:", "", "docs.google.com", "spreadsheets", "d", "Id_1", "edit">>
SheetArgs ==
    { None, Some(<<>>), Some(SheetA),
      Some(<<"https:", "", "docs.google.com", "spreadsheets", "d", "Id_1">>),
      Some(<<"https:", "", "docs.google.com", "spreadsheets", "d", "", "edit">>),
      Some(<<"https:", "", "guu.ru", "student", "schedule", "">>) }

\* [a-zA-Z0-9_-]+ : a part made of id characters only, and not empty.
IdPart(w) == w \in {"Id_1"}

\* GOOGLE_SHEET_RE.search(url): docs.google.com/spreadsheets/d/<id>/ anywhere
\* in the text.
GOOGLE_SHEET_RE(url) ==
    \E k \in 1..Len(url) :
        /\ k + 4 <= Len(url)
        /\ url[k] = "docs.google.com"
        /\ url[k + 1] = "spreadsheets"
        /\ url[k + 2] = "d"
        /\ IdPart(url[k + 3])

\* The dedup key of a sheet import: "gsheet:" + url, never a hex digest.
GsheetKey(url) == <<"gsheet:", url>>

\* The url an upload is recorded under: "uploaded:" + file_name.
UploadedUrl(name) == <<"uploaded:", name>>

\* lessons_from_sheet: the download or the read of the table may raise; a
\* table that is read yields no lesson, TIME_RE (written with doubled
\* backslashes) matching no time of day.
SheetResults ==
    { [exc |-> Some("HTTPStatusError"), v |-> <<>>],
      [exc |-> Some("AttributeError"), v |-> <<>>],
      [exc |-> None, v |-> <<>>] }

\* ----------------------------------------------------- a process's locals
Fresh ==
    [pc |-> "idle", kind |-> "none", runNo |-> 0, sender |-> "admin",
     name |-> None, args |-> None, limit |-> None,
     links |-> <<>>, i |-> 0, bytes |-> None, meta |-> None, sfId |-> None,
     lessons |-> <<>>, j |-> 0,
     group_cache |-> {}, room_cache |-> {}, teacher_cache |-> {},
     outcome |-> <<>>, downloads |-> <<>>,
     replies |-> <<>>, raised |-> None, syncRaised |-> None, upsert |-> None]

\* The per-file locals of sync's loop body and of _import_lessons.
ClearFile(r) ==
    [r EXCEPT !.bytes = None, !.meta = None, !.sfId = None, !.lessons = <<>>,
              !.j = 0, !.group_cache = {}, !.room_cache = {},
              !.teacher_cache = {}]

InSync(r) == r.kind \in {"sync", "admin_sync"}

\* sync returned: the scheduled job is over; /admin_sync goes on to the exit
\* of its get_session block.
SyncReturned(r) ==
    IF r.kind = "sync" THEN [ClearFile(r) EXCEPT !.pc = "idle"]
    ELSE [ClearFile(r) EXCEPT !.pc = "ctx_exit"]

\* The loop of sync moves to the next link, or ends.
NextLink(r) ==
    IF r.i < Len(r.links)
    THEN [ClearFile(r) EXCEPT !.pc = "download", !.i = r.i + 1]
    ELSE SyncReturned(r)

\* FileFailed with the run given up at the first file that fails.
FileFailedEndsRun(r, exc) ==
    SyncReturned([r EXCEPT !.outcome = Append(@, "failed")])

\* `except Exception` of sync's loop body: the file is logged as failed.
FileFailed(r, exc) ==
    NextLink([r EXCEPT !.outcome = Append(@, "failed")])

\* An exception nobody catches leaves the handler or the job.
HandlerRaised(r, exc) ==
    [ClearFile(r) EXCEPT !.pc = "idle", !.raised = Some(exc)]

\* Where an exception raised while a file is processed goes: sync catches
\* it per file; in _import_lessons it passes get_session (which rolls back)
\* and leaves the handler.
Raised(r, exc) ==
    IF InSync(r) THEN FileFailed(r, exc) ELSE HandlerRaised(r, exc)

\* The batch a lesson row was added by (history): the call and the link.
Bid(r) == <<r.runNo, r.i>>

\* What is left of session s's transaction after exception exc passed: a
\* failed flush rolls the transaction back and leaves the session deactive
\* until rollback() is called; get_session calls rollback() and closes the
\* session; sync does neither.
TxnAfterRaise(r, rows, flushFailed) ==
    IF flushFailed \/ ~InSync(r) THEN EmptyRows ELSE rows

SessAfterRaise(r, state, flushFailed) ==
    IF ~InSync(r) THEN "active"
    ELSE IF flushFailed THEN "deactive"
    ELSE state

\* ------------------------------------------------------------ the chat side
\* The handler tasks the dispatcher runs side by side, the users who write,
\* and the groups they pick on the /group keyboard.
Tasks == {"t1", "t2"}
Users == {"ann", "bob"}
Offered == {g.id : g \in {x \in SeedGroups : x.faculty_id = 1}}

\* What a task's session holds and has not committed: User rows added and
\* not yet flushed, User rows flushed, the user_group rows its UPDATE turned
\* inactive, and the UserGroup row added.
NoTx == [userAdd |-> {}, user |-> {}, deact |-> {}, new |-> None]

\* A task at rest, with the locals of the view handlers: the active group's
\* id, the week's Monday, the day in hand, the count of days done and the
\* blocks gathered.  seen is history: the dates that had lessons stored when
\* their text was obtained.
IdleTask ==
    [pc |-> "idle", kind |-> "none", user |-> "ann", group |-> 0, tx |-> NoTx,
     replies |-> <<>>, raised |-> None,
     gid |-> None, monday |-> 0, d |-> 0, i |-> 0, texts |-> <<>>,
     seen |-> {}]

\* DAY_CACHE and WEEK_CACHE are sets of [key, text] with one text per key.
BotInit ==
    [user |-> {}, user_group |-> {}, h |-> [t \in Tasks |-> IdleTask],
     ncalls |-> 0, DAY_CACHE |-> {}, WEEK_CACHE |-> {}]

\* Dates are day numbers, day 1 a Monday: date.weekday() and the days on
\* which a request may come.
Weekday(d) == (d - 1) % 7
Todays == {1, 2}

\* The texts of the views: the no-lessons line of a day, the empty-week
\* sentinel, the blocks of a week joined.
NoLessonsText(d) == [kind |-> "none", date |-> d]
EmptyWeekText == [kind |-> "empty_week"]
WeekText(texts) == [kind |-> "week", days |-> texts]

\* CacheHit that misses once lessons are stored under the key.
CacheHitUnlessLessons(cache, key) ==
    /\ \E e \in cache : e.key = key
    /\ \A l \in store.lesson : ~(l.group_id = key[1] /\ l.date = key[2])

\* `key in cache`, cache[key], cache[key] = text.
CacheHit(cache, key) == \E e \in cache : e.key = key
CacheText(cache, key) == (CHOOSE e \in cache : e.key = key).text
CachePut(cache, key, text) ==
    {e \in cache : e.key /= key} \cup {[key |-> key, text |-> text]}

\* select Lesson where group_id and date, ordered by start_time: the rows
\* found (the formatting fails before their order matters).
LessonsOn(gid, d) ==
    {l \in store.lesson : l.group_id = gid /\ l.date = d}

\* _get_active_group: the join of Group and the user's active UserGroup
\* rows; first() hands back one of them, or None.
ActiveGroups(user) ==
    {g.id : g \in {x \in store.group :
        \E ug \in bot.user_group :
            ug.user_id = user /\ ug.is_active /\ ug.group_id = x.id}}

\* UserGroupViolates with the constraint left out of the schema.
UserGroupViolatesNever(r, rows) == FALSE

\* UserGroup's UniqueConstraint("user_id", "is_active").
UserGroupViolates(r, rows) ==
    \E x \in rows : x.user_id = r.user_id /\ x.is_active = r.is_active

\* The user_group rows task t's statements read: the committed rows, those
\* its own UPDATE touched read as inactive.
VisibleUG(t) ==
    {[x EXCEPT !.is_active = IF x.id \in bot.h[t].tx.deact THEN FALSE ELSE @] :
        x \in bot.user_group}

\* Another task's session holds writes it has not committed.
OtherTaskWrites(t) ==
    \E q \in Tasks \ {t} :
        bot.h[q].tx.user /= {} \/ bot.h[q].tx.deact /= {}

\* The exception passes get_session (rollback, re-raise) and leaves the
\* handler.
TaskRaised(h, exc) ==
    [h EXCEPT !.pc = "idle", !.tx = NoTx, !.raised = Some(exc)]

\* No parser or helper is called by itself.
NoCalc == [fn |-> "none", arg |-> <<>>, out |-> <<>>]

\* ------------------------------------------------------------------- Init
Init ==
    /\ store = [EmptyRows EXCEPT !.group = SeedGroups]
    /\ txn = [s \in Procs |-> EmptyRows]
    /\ sess = [s \in Procs |-> "active"]
    /\ run = [p \in Procs |-> Fresh]
    /\ served = [u \in Urls |-> IF u = Links[1] THEN "A" ELSE "X"]
    /\ nruns = 0
    /\ npub = 0
    /\ overlap = FALSE
    /\ failedBatches = {}
    /\ calc = NoCalc
    /\ bot = BotInit

\* A call may start: the process is idle, and so is the other one unless
\* calls may overlap.
MayStart(p) ==
    /\ run[p].pc = "idle"
    /\ nruns < MaxRuns
    /\ overlap \/ \A q \in Procs : run[q].pc = "idle"

\* The locals once process p starts call rec; the record an idle process
\* left behind (history only, its locals are dead) is dropped.
Started(p, rec) ==
    [q \in Procs |-> IF q = p THEN rec
                     ELSE IF run[q].pc = "idle" THEN Fresh ELSE run[q]]

\* The site replaces the file behind a listed url.
Publish(u, c) ==
    /\ npub < MaxPublish
    /\ served[u] /= c
    /\ served' = [served EXCEPT ![u] = c]
    /\ npub' = npub + 1
    /\ UNCHANGED <<store, txn, sess, run, nruns, overlap, bot, calc, failedBatches>>

\* ------------------------------------------------------------------- sync
\* The scheduler starts fetcher_sync on the session made at import time.
CronSync ==
    /\ MayStart("cron")
    /\ run' = Started("cron", [Fresh EXCEPT !.pc = "list", !.kind = "sync",
                                            !.runNo = nruns + 1])
    /\ nruns' = nruns + 1
    /\ UNCHANGED <<store, txn, sess, served, npub, overlap, bot, calc,
                   failedBatches>>

\* sync(db, limit=limit), called on a session of its own as the scheduler
\* and the module's command line do.
SyncLimit(limit) ==
    /\ MayStart("cron")
    /\ run' = Started("cron", [Fresh EXCEPT !.pc = "list", !.kind = "sync",
                                            !.runNo = nruns + 1,
                                            !.limit = limit])
    /\ nruns' = nruns + 1
    /\ UNCHANGED <<store, txn, sess, served, npub, overlap, bot, calc,
                   failedBatches>>

\* links = await list_files(): outside sync's try.  A failed fetch of the
\* listing leaves sync; under /admin_sync it passes get_session, which rolls
\* back, and leaves the handler.
ListFiles(p) ==
    /\ run[p].pc = "list"
    /\ \E ok \in BOOLEAN :
         LET r == run[p]
             links == SyncLinks(Links, r.limit)
         IN  IF ok
             THEN /\ run' = [run EXCEPT ![p] =
                        IF links = <<>> THEN SyncReturned(r)
                        ELSE [r EXCEPT !.pc = "download", !.links = links,
                                       !.i = 1]]
                  /\ UNCHANGED <<txn, sess>>
             ELSE /\ run' = [run EXCEPT ![p] =
                        [HandlerRaised(r, "HTTPStatusError") EXCEPT
                            !.syncRaised = Some("HTTPStatusError")]]
                  /\ txn' = [txn EXCEPT ![p] =
                        IF r.kind = "sync" THEN @ ELSE EmptyRows]
                  /\ UNCHANGED sess
    /\ UNCHANGED <<store, served, nruns, npub, overlap, bot, calc, failedBatches>>

\* path = await download(link.url), then the hash and the meta.
Download(p) ==
    /\ run[p].pc = "download"
    /\ \E ok \in BOOLEAN :
         LET r == run[p]
             link == r.links[r.i]
             r1 == [r EXCEPT !.downloads = Append(@,
                      [link |-> link,
                       bytes |-> IF ok THEN Some(served[link]) ELSE None])]
         IN  run' = [run EXCEPT ![p] =
                IF ok
                THEN [r1 EXCEPT !.pc = "upsert_select",
                                !.bytes = Some(served[link]),
                                !.meta = Some([url |-> LinkUrl(link),
                                    sha256 |-> sha256_path(served[link])])]
                ELSE FileFailed(r1, "HTTPStatusError")]
    /\ UNCHANGED <<store, txn, sess, served, nruns, npub, overlap, bot, calc,
                   failedBatches>>

\* bulk_insert_lessons is entered: its loop, or its commit when there is no
\* lesson.
StartLoad(r) ==
    IF r.lessons = <<>> THEN [r EXCEPT !.pc = "commit"]
    ELSE [r EXCEPT !.pc = "load", !.j = 1]

\* AfterUpsert with the load entered before the workbook is parsed.
AfterUpsertLoadsUnparsed(r, sf_id) ==
    IF ~InSync(r) THEN StartLoad([r EXCEPT !.sfId = sf_id])
    ELSE IF ~TruthyInt(sf_id)
         THEN NextLink([r EXCEPT !.outcome = Append(@, "skipped")])
    ELSE StartLoad([r EXCEPT !.sfId = sf_id])

\* What follows upsert_source_file's return of sf_id.  sync: `if not sf_id:
\* continue`, else parse_excel and the load.  _import_lessons: the load.
AfterUpsert(r, sf_id) ==
    IF ~InSync(r) THEN StartLoad([r EXCEPT !.sfId = sf_id])
    ELSE IF ~TruthyInt(sf_id)
         THEN NextLink([r EXCEPT !.outcome = Append(@, "skipped")])
    ELSE LET parsed == parse_excel(r.bytes[1]) IN
         IF parsed.exc /= None THEN FileFailed(r, parsed.exc[1])
         ELSE StartLoad([r EXCEPT !.sfId = sf_id, !.lessons = parsed.v])

\* upsert_source_file, the select: an id found and truthy is returned.
UpsertSelect(p) ==
    /\ run[p].pc = "upsert_select"
    /\ LET r == run[p]
           res == scalar_one_or_none(
                    {x.id : x \in {y \in Visible(p, "source_file") :
                                      y.sha256 = r.meta[1].sha256}})
       IN  IF sess[p] = "deactive"
           THEN run' = [run EXCEPT ![p] = Raised(r, "PendingRollbackError")]
           ELSE IF res.exc /= None
           THEN run' = [run EXCEPT ![p] = Raised(r, res.exc[1])]
           ELSE IF TruthyInt(res.v)
           THEN run' = [run EXCEPT ![p] =
                   AfterUpsert([r EXCEPT !.upsert = Some(
                       [lost |-> FALSE, ret |-> res.v, exc |-> None])],
                       res.v)]
           ELSE run' = [run EXCEPT ![p] = [r EXCEPT !.pc = "upsert_flush"]]
    /\ UNCHANGED <<store, txn, sess, served, nruns, npub, overlap, bot, calc,
                   failedBatches>>

\* upsert_source_file, db.add(sf) and the flush, then the return of sf.id.
UpsertFlush(p) ==
    /\ run[p].pc = "upsert_flush"
    /\ LET r == run[p]
           sf == [id |-> NextId("source_file"), url |-> r.meta[1].url,
                  sha256 |-> r.meta[1].sha256]
       IN  \E o \in FlushOutcomes(p, "source_file", sf) :
             IF o = "ok"
             THEN /\ txn' = [txn EXCEPT ![p].source_file = @ \cup {sf}]
                  /\ run' = [run EXCEPT ![p] =
                        AfterUpsert([r EXCEPT !.upsert = Some(
                            [lost |-> FALSE, ret |-> Some(sf.id),
                             exc |-> None])], Some(sf.id))]
                  /\ UNCHANGED sess
             ELSE /\ txn' = [txn EXCEPT ![p] = EmptyRows]
                  /\ sess' = [sess EXCEPT ![p] =
                                SessAfterRaise(r, @, TRUE)]
                  /\ run' = [run EXCEPT ![p] =
                        Raised([r EXCEPT !.upsert = Some(
                            [lost |-> \E x \in AllRows("source_file") :
                                        x.sha256 = sf.sha256,
                             ret |-> None, exc |-> Some(o)])], o)]
    /\ UNCHANGED <<store, served, nruns, npub, overlap, bot, calc, failedBatches>>

\* ---------------------------------------------------- bulk_insert_lessons
\* A lookup cache of bulk_insert_lessons: a set of <<key, id>> pairs.
CacheHas(cache, k) == \E e \in cache : e[1] = k
CacheGet(cache, k) == (CHOOSE e \in cache : e[1] = k)[2]

\* RoomKey with the name split at its last hyphen.
RoomKeyLastHyphen(room) ==
    IF \E k \in 1..Len(room) : room[k] = "-"
    THEN LET k == CHOOSE k \in 1..Len(room) :
                    room[k] = "-" /\ \A m \in (k + 1)..Len(room) : room[m] /= "-"
         IN  [building |-> SubSeq(room, 1, k - 1),
              number |-> SubSeq(room, k + 1, Len(room))]
    ELSE [building |-> <<>>, number |-> room]

\* room_name.partition("-") if "-" in room_name else ("", "", room_name).
RoomKey(room) ==
    IF \E k \in 1..Len(room) : room[k] = "-"
    THEN LET k == CHOOSE k \in 1..Len(room) :
                    room[k] = "-" /\ \A m \in 1..(k - 1) : room[m] /= "-"
         IN  [building |-> SubSeq(room, 1, k - 1),
              number |-> SubSeq(room, k + 1, Len(room))]
    ELSE [building |-> <<>>, number |-> room]

\* GetGroup as a get-or-create: a code without a row gets a new id.
GetGroupOrCreate(s, cache, code) ==
    IF CacheHas(cache, code)
    THEN [exc |-> None, v |-> CacheGet(cache, code)]
    ELSE LET res == scalar_one_or_none(
                      {g.id : g \in {x \in Visible(s, "group") :
                                        x.code = code}})
         IN  IF res.exc /= None THEN [exc |-> res.exc, v |-> 0]
             ELSE IF res.v = None THEN [exc |-> None, v |-> NextId("group")]
             ELSE [exc |-> None, v |-> res.v[1]]

\* _get_group: the cache, else the select by code; no row is a RuntimeError,
\* several rows make scalar_one_or_none raise.  Never an insert.
GetGroup(s, cache, code) ==
    IF CacheHas(cache, code)
    THEN [exc |-> None, v |-> CacheGet(cache, code)]
    ELSE LET res == scalar_one_or_none(
                      {g.id : g \in {x \in Visible(s, "group") :
                                        x.code = code}})
         IN  IF res.exc /= None THEN [exc |-> res.exc, v |-> 0]
             ELSE IF res.v = None THEN [exc |-> Some("RuntimeError"), v |-> 0]
             ELSE [exc |-> None, v |-> res.v[1]]

\* _get_or_create_room and _get_or_create_teacher, up to the flush: the id
\* the cache or the select gives, or the row to insert.
GetRoom(s, cache, room) ==
    IF CacheHas(cache, room)
    THEN [exc |-> None, v |-> Some(CacheGet(cache, room)), new |-> None]
    ELSE LET key == RoomKey(room)
             res == scalar_one_or_none(
                      {x.id : x \in {y \in Visible(s, "room") :
                          y.building = key.building /\ y.number = key.number}})
         IN  IF res.exc /= None THEN [exc |-> res.exc, v |-> None, new |-> None]
             ELSE IF res.v /= None THEN [exc |-> None, v |-> res.v, new |-> None]
             ELSE [exc |-> None, v |-> None,
                   new |-> Some([id |-> NextId("room"),
                                 building |-> key.building,
                                 number |-> key.number])]

GetTeacher(s, cache, name) ==
    IF CacheHas(cache, name)
    THEN [exc |-> None, v |-> Some(CacheGet(cache, name)), new |-> None]
    ELSE LET res == scalar_one_or_none(
                      {x.id : x \in {y \in Visible(s, "teacher") :
                                        y.name = name}})
         IN  IF res.exc /= None THEN [exc |-> res.exc, v |-> None, new |-> None]
             ELSE IF res.v /= None THEN [exc |-> None, v |-> res.v, new |-> None]
             ELSE [exc |-> None, v |-> None,
                   new |-> Some([id |-> NextId("teacher"), name |-> name])]

\* The outcomes of the flush of a get-or-create: nothing to insert is "ok".
CreateOutcomes(s, t, got) ==
    IF got.exc /= None \/ got.new = None THEN {"ok"}
    ELSE FlushOutcomes(s, t, got.new[1])

\* The id a get-or-create resolves to once its flush went through.
Resolved(got) == IF got.new /= None THEN got.new[1].id ELSE got.v[1]

NoLookup == [exc |-> None, v |-> None, new |-> None]

\* SessionAdd with the lesson dropped when a pending row has its group,
\* date, start time and subject.
SessionAddUnlessSame(rows, obj) ==
    IF \E x \in rows : /\ x.group_id = obj.group_id
                       /\ x.date = obj.date
                       /\ x.start_time = obj.start_time
                       /\ x.subject = obj.subject
    THEN rows
    ELSE rows \cup {obj}

\* db.add(obj): the row is pending in the session.
SessionAdd(rows, obj) == rows \cup {obj}

\* One turn of bulk_insert_lessons' loop: the group, the room and the
\* teacher of lessons[j] are resolved and the Lesson row is added.  bid, k
\* and of are history: the row's batch, its place in it and the batch's size.
LoadStep(p) ==
    /\ run[p].pc = "load"
    /\ LET r == run[p]
           rec == r.lessons[r.j]
           grp == GetGroup(p, r.group_cache, rec.group_code)
           room == IF TruthySeq(rec.room)
                   THEN GetRoom(p, r.room_cache, rec.room[1]) ELSE NoLookup
           teacher == IF TruthyStr(rec.teacher)
                      THEN GetTeacher(p, r.teacher_cache, rec.teacher[1])
                      ELSE NoLookup
           rid == IF TruthySeq(rec.room) THEN Some(Resolved(room)) ELSE None
           tid == IF TruthyStr(rec.teacher) THEN Some(Resolved(teacher))
                  ELSE None
           obj == [id |-> NextId("lesson"), group_id |-> grp.v,
                   date |-> rec.date, start_time |-> rec.start_time,
                   end_time |-> rec.end_time, subject |-> rec.subject,
                   teacher_id |-> tid, room_id |-> rid,
                   source_id |-> r.sfId, bid |-> Bid(r),
                   k |-> r.j, of |-> Len(r.lessons)]
           fail(exc, flushFailed) ==
               /\ run' = [run EXCEPT ![p] = Raised(r, exc)]
               /\ txn' = [txn EXCEPT ![p] =
                             TxnAfterRaise(r, @, flushFailed)]
               /\ sess' = [sess EXCEPT ![p] =
                              SessAfterRaise(r, @, flushFailed)]
               /\ failedBatches' = failedBatches \cup {<<Bid(r), exc>>}
       IN  \E ro \in CreateOutcomes(p, "room", room),
              to \in CreateOutcomes(p, "teacher", teacher) :
             IF sess[p] = "deactive" THEN fail("PendingRollbackError", FALSE)
             ELSE IF grp.exc /= None THEN fail(grp.exc[1], FALSE)
             ELSE IF room.exc /= None THEN fail(room.exc[1], FALSE)
             ELSE IF ro /= "ok" THEN fail(ro, TRUE)
             ELSE IF teacher.exc /= None THEN fail(teacher.exc[1], FALSE)
             ELSE IF to /= "ok" THEN fail(to, TRUE)
             ELSE /\ txn' = [txn EXCEPT ![p] =
                        [@ EXCEPT
                           !.room = @ \cup
                              (IF room.new = None THEN {} ELSE {room.new[1]}),
                           !.teacher = @ \cup
                              (IF teacher.new = None THEN {}
                               ELSE {teacher.new[1]}),
                           !.lesson = SessionAdd(@, obj)]]
                  /\ run' = [run EXCEPT ![p] =
                        [r EXCEPT
                           !.group_cache = @ \cup {<<rec.group_code, grp.v>>},
                           !.room_cache = @ \cup
                              (IF rid = None THEN {}
                               ELSE {<<rec.room[1], rid[1]>>}),
                           !.teacher_cache = @ \cup
                              (IF tid = None THEN {}
                               ELSE {<<rec.teacher[1], tid[1]>>}),
                           !.j = IF r.j < Len(r.lessons) THEN r.j + 1 ELSE 0,
                           !.pc = IF r.j < Len(r.lessons) THEN "load"
                                  ELSE "commit"]]
                  /\ UNCHANGED <<sess, failedBatches>>
    /\ UNCHANGED <<store, served, nruns, npub, overlap, bot, calc>>

\* The store after session s's open transaction is committed.
Committed(s) == [t \in DOMAIN store |-> store[t] \cup txn[s][t]]

\* The outcomes of a commit on session s: a deactive session raises; rows
\* still to be written may time out against another writer, and commit()
\* then rolls back itself, which leaves the session usable.
CommitOutcomes(s) ==
    IF sess[s] = "deactive" THEN {"PendingRollbackError"}
    ELSE IF txn[s] /= EmptyRows /\ OtherWriter(s)
         THEN {"ok", "OperationalError"}
    ELSE {"ok"}

\* await db.commit() at the end of bulk_insert_lessons: everything the
\* session holds is committed, whichever file added it.
Commit(p) ==
    /\ run[p].pc = "commit"
    /\ LET r == run[p] IN
       \E o \in CommitOutcomes(p) :
         IF o = "ok"
         THEN /\ store' = Committed(p)
              /\ txn' = [txn EXCEPT ![p] = EmptyRows]
              /\ run' = [run EXCEPT ![p] =
                    IF InSync(r)
                    THEN NextLink([r EXCEPT !.outcome = Append(@, "loaded")])
                    ELSE [r EXCEPT !.pc = "ctx_exit"]]
              /\ UNCHANGED <<sess, failedBatches>>
         ELSE /\ run' = [run EXCEPT ![p] = Raised(r, o)]
              /\ txn' = [txn EXCEPT ![p] =
                    IF o = "PendingRollbackError"
                    THEN TxnAfterRaise(r, @, FALSE) ELSE EmptyRows]
              /\ sess' = [sess EXCEPT ![p] = SessAfterRaise(r, @, FALSE)]
              /\ failedBatches' = failedBatches \cup {<<Bid(r), o>>}
              /\ UNCHANGED store
    /\ UNCHANGED <<served, nruns, npub, overlap, bot, calc>>

\* --------------------------------------------------------- admin handlers
Reply(msg) == [msg |-> msg, n |-> 0]
CountReply(n) == [msg |-> "imported", n |-> n]

\* The exit of a get_session block that was not left by an exception:
\* session.commit(); a raise there is rolled back and leaves the handler.
\* Then the handler's closing reply.
CtxExit(p) ==
    /\ run[p].pc = "ctx_exit"
    /\ LET r == run[p] IN
       \E o \in CommitOutcomes(p) :
         IF o = "ok"
         THEN /\ store' = Committed(p)
              /\ run' = [run EXCEPT ![p] =
                    [ClearFile(r) EXCEPT
                       !.pc = "idle",
                       !.replies = Append(@,
                          IF r.kind = "admin_sync" THEN Reply("done")
                          ELSE CountReply(Len(r.lessons)))]]
         ELSE /\ run' = [run EXCEPT ![p] = HandlerRaised(r, o)]
              /\ UNCHANGED store
    /\ txn' = [txn EXCEPT ![p] = EmptyRows]
    /\ sess' = [sess EXCEPT ![p] = "active"]
    /\ UNCHANGED <<served, nruns, npub, overlap, bot, calc, failedBatches>>

\* A handler call that ends within its first step.
Answered(kind, sender, replies) ==
    [Fresh EXCEPT !.kind = kind, !.runNo = nruns + 1, !.sender = sender,
                  !.replies = replies]

\* /admin_help
AdminHelp(sender) ==
    /\ MayStart("adm")
    /\ run' = Started("adm",
          Answered("admin_help", sender,
                   IF is_admin(sender) THEN <<Reply("help")>> ELSE <<>>))
    /\ nruns' = nruns + 1
    /\ UNCHANGED <<store, txn, sess, served, npub, overlap, bot, calc,
                   failedBatches>>

\* /admin_sync: sync on a session of get_session.
AdminSyncCmd(sender) ==
    /\ MayStart("adm")
    /\ run' = Started("adm",
          IF ~is_admin(sender) THEN Answered("admin_sync", sender, <<>>)
          ELSE [Answered("admin_sync", sender, <<Reply("syncing")>>)
                   EXCEPT !.pc = "list"])
    /\ nruns' = nruns + 1
    /\ UNCHANGED <<store, txn, sess, served, npub, overlap, bot, calc,
                   failedBatches>>

\* /admin_import_sheet <URL>, up to the download of the table.
AdminImportSheet(sender, args) ==
    /\ MayStart("adm")
    /\ run' = Started("adm",
          LET call(replies) ==
                [Answered("import_sheet", sender, replies)
                    EXCEPT !.args = args]
          IN  IF ~is_admin(sender) THEN call(<<>>)
              ELSE IF ~TruthySeq(args) THEN call(<<Reply("no_url")>>)
              ELSE IF ~GOOGLE_SHEET_RE(args[1])
                   THEN call(<<Reply("not_a_sheet")>>)
              ELSE [call(<<Reply("downloading")>>) EXCEPT
                       !.pc = "sheet_fetch"])
    /\ nruns' = nruns + 1
    /\ UNCHANGED <<store, txn, sess, served, npub, overlap, bot, calc,
                   failedBatches>>

\* lessons = await lessons_from_sheet(url) under `except Exception`, then
\* _import_lessons under the synthetic key.
SheetFetch(p) ==
    /\ run[p].pc = "sheet_fetch"
    /\ \E res \in SheetResults :
         LET r == run[p] IN
         run' = [run EXCEPT ![p] =
            IF res.exc /= None
            THEN [r EXCEPT !.pc = "idle",
                           !.replies = Append(@, Reply("error"))]
            ELSE [r EXCEPT !.pc = "upsert_select", !.lessons = res.v,
                           !.meta = Some([url |-> r.args[1],
                                          sha256 |-> GsheetKey(r.args[1])])]]
    /\ UNCHANGED <<store, txn, sess, served, nruns, npub, overlap, bot, calc,
                   failedBatches>>

\* The document handler, up to the download of the document.
AdminUpload(sender, name, content) ==
    /\ MayStart("adm")
    /\ run' = Started("adm",
          LET file_name == IF TruthySeq(name) THEN name[1]
                           ELSE <<"uploaded_file">>
              call(replies) ==
                [Answered("upload", sender, replies)
                    EXCEPT !.name = Some(file_name)]
          IN  IF ~is_admin(sender) THEN call(<<>>)
              ELSE IF ~SupportedSuffix(Suffix(file_name))
                   THEN call(<<Reply("unsupported")>>)
              ELSE [call(<<Reply("receiving")>>) EXCEPT
                       !.pc = "bot_download", !.bytes = Some(content)])
    /\ nruns' = nruns + 1
    /\ UNCHANGED <<store, txn, sess, served, npub, overlap, bot, calc,
                   failedBatches>>

\* The exceptions admin_upload's `except` names.
UploadCaught == {"ValueError", "InvalidFileException"}

\* await msg.bot.download(doc, dest), the parse by suffix under `except
\* (ValueError, InvalidFileException)`, then _import_lessons under the hash
\* of the file.
BotDownload(p) ==
    /\ run[p].pc = "bot_download"
    /\ \E ok \in BOOLEAN :
         LET r == run[p]
             parsed == IF Suffix(r.name[1]) = <<".", "xlsx">>
                       THEN parse_excel(r.bytes[1])
                       ELSE parse_csv(r.bytes[1])
         IN  run' = [run EXCEPT ![p] =
                IF ~ok THEN HandlerRaised(r, "TelegramNetworkError")
                ELSE IF parsed.exc /= None /\ parsed.exc[1] \in UploadCaught
                     THEN [ClearFile(r) EXCEPT
                             !.pc = "idle",
                             !.replies = Append(@, Reply("parse_error"))]
                ELSE IF parsed.exc /= None
                     THEN HandlerRaised(r, parsed.exc[1])
                ELSE [r EXCEPT !.pc = "upsert_select", !.lessons = parsed.v,
                               !.meta = Some([url |-> UploadedUrl(r.name[1]),
                                   sha256 |-> sha256_path(r.bytes[1])])]]
    /\ UNCHANGED <<store, txn, sess, served, nruns, npub, overlap, bot, calc,
                   failedBatches>>

\* ------------------------------------------------------------ cb_set_group
ingest == <<store, txn, sess, run, served, nruns, npub, overlap, failedBatches>>

\* A chat call may start on task t.
TaskFree(t) == bot.h[t].pc = "idle" /\ bot.ncalls < MaxCalls

\* The callback "setgrp:<id>" arrives; _get_or_create_user: db.get finds the
\* User row or the row is added to the session (no flush yet).
CbSetGroup(t, user, g) ==
    /\ TaskFree(t)
    /\ bot' = [bot EXCEPT
          !.ncalls = @ + 1,
          !.h[t] = [IdleTask EXCEPT
              !.pc = "select", !.kind = "set_group", !.user = user,
              !.group = g,
              !.tx.userAdd = IF user \in bot.user THEN {} ELSE {user}]]
    /\ UNCHANGED <<ingest, calc>>

\* The "forcing load" select: autoflush inserts the pending User row (the
\* primary key may be taken by now), the rows read are dropped.
SelectActive(t) ==
    /\ bot.h[t].pc = "select"
    /\ LET h == bot.h[t]
           taken == h.tx.userAdd \cap bot.user /= {}
           held == \E q \in Tasks \ {t} : h.tx.userAdd \cap bot.h[q].tx.user /= {}
           outs == IF h.tx.userAdd = {} THEN {"ok"}
                   ELSE IF taken THEN {"IntegrityError"}
                   ELSE IF held THEN {"OperationalError"}
                   ELSE IF OtherTaskWrites(t) THEN {"ok", "OperationalError"}
                   ELSE {"ok"}
       IN  \E o \in outs :
             bot' = [bot EXCEPT !.h[t] =
                IF o /= "ok" THEN TaskRaised(h, o)
                ELSE [h EXCEPT !.pc = "update",
                               !.tx.user = @ \cup h.tx.userAdd,
                               !.tx.userAdd = {}]]
    /\ UNCHANGED <<ingest, calc>>

\* UPDATE user_group SET is_active = False WHERE user_id = :u AND is_active,
\* then db.add(UserGroup(user_id, group_id, is_active=True)).
UpdateActive(t) ==
    /\ bot.h[t].pc = "update"
    /\ LET h == bot.h[t]
           rows == VisibleUG(t)
           targets == {x \in rows : x.user_id = h.user /\ x.is_active}
           rest == rows \ targets
           clash == \E x \in targets :
                      UserGroupViolates([x EXCEPT !.is_active = FALSE], rest)
           held == \E q \in Tasks \ {t} :
                      \E x \in targets : x.id \in bot.h[q].tx.deact
           outs == IF targets = {} THEN {"ok"}
                   ELSE IF clash \/ Cardinality(targets) > 1
                        THEN {"IntegrityError"}
                   ELSE IF held THEN {"OperationalError"}
                   ELSE IF OtherTaskWrites(t) THEN {"ok", "OperationalError"}
                   ELSE {"ok"}
       IN  \E o \in outs :
             bot' = [bot EXCEPT !.h[t] =
                IF o /= "ok" THEN TaskRaised(h, o)
                ELSE [h EXCEPT
                        !.pc = "exit",
                        !.tx.deact = @ \cup {x.id : x \in targets},
                        !.tx.new = Some([user_id |-> h.user,
                                         group_id |-> h.group,
                                         is_active |-> TRUE])]]
    /\ UNCHANGED <<ingest, calc>>

\* The exit of get_session: commit flushes the INSERT of the new row, then
\* the two confirmations are sent.
ExitSetGroup(t) ==
    /\ bot.h[t].pc = "exit"
    /\ LET h == bot.h[t]
           new == h.tx.new[1]
           clash == UserGroupViolates(new, VisibleUG(t))
           outs == IF clash THEN {"IntegrityError"}
                   ELSE IF OtherTaskWrites(t) THEN {"ok", "OperationalError"}
                   ELSE {"ok"}
           id == Max({x.id : x \in bot.user_group}) + 1
       IN  \E o \in outs :
             bot' = IF o /= "ok" THEN [bot EXCEPT !.h[t] = TaskRaised(h, o)]
                    ELSE [bot EXCEPT
                       !.user = @ \cup h.tx.user,
                       !.user_group = VisibleUG(t) \cup
                          {[id |-> id, user_id |-> new.user_id,
                            group_id |-> new.group_id, is_active |-> TRUE]},
                       !.h[t] = [h EXCEPT !.pc = "idle", !.tx = NoTx,
                                   !.replies = <<[kind |-> "saved"],
                                                 [kind |-> "saved_edit"]>>]]
    /\ UNCHANGED <<ingest, calc>>

\* /start arrives; _get_or_create_user: db.get finds the User row or the row
\* is added to the session.
CmdStart(t, user) ==
    /\ TaskFree(t)
    /\ bot' = [bot EXCEPT
          !.ncalls = @ + 1,
          !.h[t] = [IdleTask EXCEPT
              !.pc = "start_exit", !.kind = "start", !.user = user,
              !.tx.userAdd = IF user \in bot.user THEN {} ELSE {user}]]
    /\ UNCHANGED <<ingest, calc>>

\* The exit of /start's get_session: commit inserts the pending User row
\* (the primary key may be taken by now), then the welcome is sent.
ExitStart(t) ==
    /\ bot.h[t].pc = "start_exit"
    /\ LET h == bot.h[t]
           taken == h.tx.userAdd \cap bot.user /= {}
           held == \E q \in Tasks \ {t} : h.tx.userAdd \cap bot.h[q].tx.user /= {}
           outs == IF h.tx.userAdd = {} THEN {"ok"}
                   ELSE IF taken THEN {"IntegrityError"}
                   ELSE IF held THEN {"OperationalError"}
                   ELSE IF OtherTaskWrites(t) THEN {"ok", "OperationalError"}
                   ELSE {"ok"}
       IN  \E o \in outs :
             bot' = IF o /= "ok" THEN [bot EXCEPT !.h[t] = TaskRaised(h, o)]
                    ELSE [bot EXCEPT
                       !.user = @ \cup h.tx.userAdd,
                       !.h[t] = [h EXCEPT !.pc = "idle", !.tx = NoTx,
                                   !.replies = <<[kind |-> "welcome"]>>]]
    /\ UNCHANGED <<ingest, calc>>

\* ------------------------------------------------------ /today and /week
\* The dates monday..monday+5 on which group gid has lessons stored.
WeekDates(gid, monday) ==
    {d \in monday..(monday + 5) : LessonsOn(gid, d) /= {}}

\* _markdown_schedule_for_day returned text to task t, on the bot state b:
\* /today answers with it; /week's loop drops a no-lessons text, keeps any
\* other, and after the sixth day joins the blocks, or takes the sentinel,
\* stores the result in WEEK_CACHE and answers.
Delivered(b, t, text) ==
    LET h == b.h[t]
        h1 == [h EXCEPT !.seen = @ \cup
                  (IF LessonsOn(h.gid[1], h.d) /= {} THEN {h.d} ELSE {})]
        texts == IF text.kind = "none" THEN h.texts ELSE Append(h.texts, text)
        result == IF texts /= <<>> THEN WeekText(texts) ELSE EmptyWeekText
    IN  IF h.kind = "today"
        THEN [b EXCEPT !.h[t] = [h1 EXCEPT !.pc = "idle",
                                           !.replies = <<text>>]]
        ELSE IF h.i + 1 < 6
        THEN [b EXCEPT !.h[t] = [h1 EXCEPT !.pc = "day", !.i = h.i + 1,
                                           !.d = h.d + 1, !.texts = texts]]
        ELSE [b EXCEPT
                !.WEEK_CACHE = CachePut(@, <<h.gid[1], h.monday>>, result),
                !.h[t] = [h1 EXCEPT !.pc = "idle", !.i = h.i + 1,
                                    !.texts = texts, !.replies = <<result>>]]

\* /today: the active group is read; without one the user is sent to /group.
CmdToday(t, user, today) ==
    /\ TaskFree(t)
    /\ LET call == [IdleTask EXCEPT !.kind = "today", !.user = user]
       IN  IF ActiveGroups(user) = {}
           THEN bot' = [bot EXCEPT
                   !.ncalls = @ + 1,
                   !.h[t] = [call EXCEPT
                               !.replies = <<[kind |-> "choose_group"]>>]]
           ELSE \E g \in ActiveGroups(user) :
                  bot' = [bot EXCEPT
                     !.ncalls = @ + 1,
                     !.h[t] = [call EXCEPT !.pc = "day", !.gid = Some(g),
                                           !.d = today]]
    /\ UNCHANGED <<ingest, calc>>

\* /week: Monday of today's week, the active group, then WEEK_CACHE.
CmdWeek(t, user, today) ==
    /\ TaskFree(t)
    /\ LET monday == today - Weekday(today)
           call == [IdleTask EXCEPT !.kind = "week", !.user = user,
                                    !.monday = monday]
       IN  IF ActiveGroups(user) = {}
           THEN bot' = [bot EXCEPT
                   !.ncalls = @ + 1,
                   !.h[t] = [call EXCEPT
                               !.replies = <<[kind |-> "choose_group"]>>]]
           ELSE \E g \in ActiveGroups(user) :
                  bot' = [bot EXCEPT
                     !.ncalls = @ + 1,
                     !.h[t] =
                        IF CacheHit(bot.WEEK_CACHE, <<g, monday>>)
                        THEN [call EXCEPT
                                !.gid = Some(g),
                                !.seen = WeekDates(g, monday),
                                !.replies = <<CacheText(bot.WEEK_CACHE,
                                                        <<g, monday>>)>>]
                        ELSE [call EXCEPT !.pc = "day", !.gid = Some(g),
                                          !.d = monday]]
    /\ UNCHANGED <<ingest, calc>>

\* _markdown_schedule_for_day, the cache: a hit returns the cached text.
DayLookup(t) ==
    /\ bot.h[t].pc = "day"
    /\ LET h == bot.h[t]
           key == <<h.gid[1], h.d>>
       IN  bot' = IF CacheHit(bot.DAY_CACHE, key)
                  THEN Delivered(bot, t, CacheText(bot.DAY_CACHE, key))
                  ELSE [bot EXCEPT !.h[t].pc = "fetch"]
    /\ UNCHANGED <<ingest, calc>>

\* _markdown_schedule_for_day, the query: no row gives the no-lessons line,
\* which is cached and returned; with rows the formatting reads les.teacher,
\* an attribute models.Lesson does not have, and AttributeError leaves the
\* handler.
DayFetch(t) ==
    /\ bot.h[t].pc = "fetch"
    /\ LET h == bot.h[t]
           key == <<h.gid[1], h.d>>
           lessons == LessonsOn(h.gid[1], h.d)
       IN  bot' = IF lessons /= {}
                  THEN [bot EXCEPT !.h[t] =
                          TaskRaised([h EXCEPT !.seen = @ \cup {h.d}],
                                     "AttributeError")]
                  ELSE Delivered(
                         [bot EXCEPT !.DAY_CACHE =
                             CachePut(@, key, NoLessonsText(h.d))],
                         t, NoLessonsText(h.d))
    /\ UNCHANGED <<ingest, calc>>

\* Time passes with no request: after 15 minutes every entry of DAY_CACHE is
\* past its time to live, after 30 minutes every entry of WEEK_CACHE too.
ExpireDay ==
    /\ bot.DAY_CACHE /= {}
    /\ bot' = [bot EXCEPT !.DAY_CACHE = {}]
    /\ UNCHANGED <<ingest, calc>>

ExpireWeek ==
    /\ bot.WEEK_CACHE /= {}
    /\ bot' = [bot EXCEPT !.DAY_CACHE = {}, !.WEEK_CACHE = {}]
    /\ UNCHANGED <<ingest, calc>>

\* ------------------------------------------------------------------- Next
\* The steps of the calls.
Calls ==
    \/ CronSync
    \/ \E s \in Senders : AdminHelp(s)
    \/ \E s \in Senders : AdminSyncCmd(s)
    \/ \E s \in Senders, a \in SheetArgs : AdminImportSheet(s, a)
    \/ \E s \in Senders, n \in FileNames, c \in Contents : AdminUpload(s, n, c)
    \/ \E p \in Procs : ListFiles(p)
    \/ \E p \in Procs : Download(p)
    \/ \E p \in Procs : UpsertSelect(p)
    \/ \E p \in Procs : UpsertFlush(p)
    \/ \E p \in Procs : LoadStep(p)
    \/ \E p \in Procs : Commit(p)
    \/ \E p \in Procs : CtxExit(p)
    \/ \E p \in Procs : SheetFetch(p)
    \/ \E p \in Procs : BotDownload(p)

Next ==
    \/ \E u \in Urls, c \in Workbooks : Publish(u, c)
    \/ Calls

\* Calls one at a time, the site changing its files meanwhile.
Spec == Init /\ [][Next]_vars

\* The scheduled sync and an admin call overlapping, over files that stay
\* as they are.
InitRace ==
    /\ store = [EmptyRows EXCEPT !.group = SeedGroups]
    /\ txn = [s \in Procs |-> EmptyRows]
    /\ sess = [s \in Procs |-> "active"]
    /\ run = [p \in Procs |-> Fresh]
    /\ served = [u \in Urls |-> IF u = Links[1] THEN "A" ELSE "X"]
    /\ nruns = 0
    /\ npub = 0
    /\ overlap = TRUE
    /\ failedBatches = {}
    /\ calc = NoCalc
    /\ bot = BotInit

SpecRace == InitRace /\ [][Calls]_vars

\* The group selections alone, any number of them under way at once.
GroupNext ==
    \/ \E t \in Tasks, u \in Users : CmdStart(t, u)
    \/ \E t \in Tasks : ExitStart(t)
    \/ \E t \in Tasks, u \in Users, g \in Offered : CbSetGroup(t, u, g)
    \/ \E t \in Tasks : SelectActive(t)
    \/ \E t \in Tasks : UpdateActive(t)
    \/ \E t \in Tasks : ExitSetGroup(t)

SpecGroup == Init /\ [][GroupNext]_vars

\* The views, one request at a time, with the scheduled sync filling the
\* store meanwhile; one user has selected a group beforehand.
InitView ==
    /\ store = [EmptyRows EXCEPT !.group = SeedGroups]
    /\ txn = [s \in Procs |-> EmptyRows]
    /\ sess = [s \in Procs |-> "active"]
    /\ run = [p \in Procs |-> Fresh]
    /\ served = [u \in Urls |-> IF u = Links[1] THEN "A" ELSE "X"]
    /\ nruns = 0
    /\ npub = 0
    /\ overlap = FALSE
    /\ failedBatches = {}
    /\ calc = NoCalc
    /\ bot = [BotInit EXCEPT
                !.user = {"ann"},
                !.user_group = {[id |-> 1, user_id |-> "ann", group_id |-> 1,
                                 is_active |-> TRUE]}]

ViewNext ==
    \/ \E u \in Users, d \in Todays : CmdToday("t1", u, d)
    \/ \E u \in Users, d \in Todays : CmdWeek("t1", u, d)
    \/ DayLookup("t1")
    \/ DayFetch("t1")
    \/ ExpireDay
    \/ ExpireWeek
    \/ CronSync
    \/ ListFiles("cron")
    \/ Download("cron")
    \/ UpsertSelect("cron")
    \/ UpsertFlush("cron")
    \/ LoadStep("cron")
    \/ Commit("cron")

SpecView == InitView /\ [][ViewNext]_vars

\* The imports alone, one at a time: the sync runs and an admin's uploads
\* of well-named files, with the site republishing.
ImportNext ==
    \/ \E u \in Urls, c \in Workbooks : Publish(u, c)
    \/ CronSync
    \/ \E sender \in ADMIN_IDS : AdminSyncCmd(sender)
    \/ \E sender \in ADMIN_IDS, c \in Contents,
           n \in {Some(<<"plan", "XLSX">>), Some(<<"rows", "csv">>)} :
          AdminUpload(sender, n, c)
    \/ \E p \in Procs : ListFiles(p)
    \/ \E p \in Procs : Download(p)
    \/ \E p \in Procs : BotDownload(p)
    \/ \E p \in Procs : UpsertSelect(p)
    \/ \E p \in Procs : UpsertFlush(p)
    \/ \E p \in Procs : LoadStep(p)
    \/ \E p \in Procs : Commit(p)
    \/ \E p \in Procs : CtxExit(p)

SpecImport == Init /\ [][ImportNext]_vars

\* sync called with each value of limit, alone, with the site replacing a
\* listed file.
LimitNext ==
    \/ \E u \in Urls, c \in Workbooks : Publish(u, c)
    \/ \E limit \in Limits : SyncLimit(limit)
    \/ ListFiles("cron")
    \/ Download("cron")
    \/ UpsertSelect("cron")
    \/ UpsertFlush("cron")
    \/ LoadStep("cron")
    \/ Commit("cron")

SpecLimit == Init /\ [][LimitNext]_vars

\* The sync runs over the workbook with a lesson of the code two faculties
\* share.
InitTwin ==
    /\ store = [EmptyRows EXCEPT !.group = SeedGroups]
    /\ txn = [s \in Procs |-> EmptyRows]
    /\ sess = [s \in Procs |-> "active"]
    /\ run = [p \in Procs |-> Fresh]
    /\ served = [u \in Urls |-> IF u = Links[1] THEN "A" ELSE "T"]
    /\ nruns = 0
    /\ npub = 0
    /\ overlap = FALSE
    /\ failedBatches = {}
    /\ calc = NoCalc
    /\ bot = BotInit

TwinNext ==
    \/ \E u \in Urls, c \in {"A", "T"} : Publish(u, c)
    \/ CronSync
    \/ \E sender \in ADMIN_IDS : AdminSyncCmd(sender)
    \/ \E p \in Procs : ListFiles(p)
    \/ \E p \in Procs : Download(p)
    \/ \E p \in Procs : UpsertSelect(p)
    \/ \E p \in Procs : UpsertFlush(p)
    \/ \E p \in Procs : LoadStep(p)
    \/ \E p \in Procs : Commit(p)
    \/ \E p \in Procs : CtxExit(p)

SpecTwin == InitTwin /\ [][TwinNext]_vars

\* ------------------------------------------- parsers and helpers by themselves
\* The state in which function fn is about to be called on one of args.
CalcInit(fn, args) ==
    /\ store = [EmptyRows EXCEPT !.group = SeedGroups]
    /\ txn = [s \in Procs |-> EmptyRows]
    /\ sess = [s \in Procs |-> "active"]
    /\ run = [p \in Procs |-> Fresh]
    /\ served = [u \in Urls |-> IF u = Links[1] THEN "A" ELSE "X"]
    /\ nruns = 0
    /\ npub = 0
    /\ overlap = FALSE
    /\ failedBatches = {}
    /\ bot = BotInit
    /\ calc \in {[fn |-> fn, arg |-> a, out |-> <<>>] : a \in args}

\* The call returns v.
CalcReturn(fn, v) ==
    /\ calc.fn = fn
    /\ calc.out = <<>>
    /\ calc' = [calc EXCEPT !.out = <<v>>]
    /\ UNCHANGED <<ingest, bot>>

\* The room names a lesson may carry: 1..MaxRoomLen characters, each a
\* letter, a digit or the hyphen.
RoomNames == UNION {[1..k -> {"B", "2", "-"}] : k \in 1..MaxRoomLen}

\* _get_or_create_room splits the name of the room in hand.
SplitRoom == CalcReturn("room_key", RoomKey(calc.arg))

SpecRoomKey == CalcInit("room_key", RoomNames) /\ [][SplitRoom]_vars

\* ------------------------------------------------------- worksheet cells
\* A string is a sequence of tokens: a run of letters (v names the word,
\* w = 1 when upper case), a run of w digits of value v, or one character
\* of punctuation.
L(v, upper) == [k |-> "L", v |-> v, w |-> IF upper THEN 1 ELSE 0]
D(v, w) == [k |-> "D", v |-> v, w |-> w]
P(c) == [k |-> c, v |-> 0, w |-> 0]

\* The values openpyxl hands over for a cell: None, a string, a datetime
\* (at midnight) or a date.
NoneCell == [t |-> "none", s |-> <<>>, y |-> 0, m |-> 0, d |-> 0]
StrCell(s) == [t |-> "str", s |-> s, y |-> 0, m |-> 0, d |-> 0]
DateCell(y, m, d) == [t |-> "date", s |-> <<>>, y |-> y, m |-> m, d |-> d]
DatetimeCell(y, m, d) ==
    [t |-> "datetime", s |-> <<>>, y |-> y, m |-> m, d |-> d]

\* str(v) of a cell value that is not None.
PyStr(v) ==
    CASE v.t = "str" -> v.s
      [] v.t = "date" ->
            <<D(v.y, 4), P("-"), D(v.m, 2), P("-"), D(v.d, 2)>>
      [] v.t = "datetime" ->
            <<D(v.y, 4), P("-"), D(v.m, 2), P("-"), D(v.d, 2), P(" "),
              D(0, 2), P(":"), D(0, 2), P(":"), D(0, 2)>>
      [] OTHER -> <<L(0, TRUE)>>

\* str.strip(): the blanks at both ends go.
RECURSIVE LStrip(_)
LStrip(s) ==
    IF s /= <<>> /\ s[1].k = " " THEN LStrip(Tail(s)) ELSE s

RECURSIVE RStrip(_)
RStrip(s) ==
    IF s /= <<>> /\ s[Len(s)].k = " "
    THEN RStrip(SubSeq(s, 1, Len(s) - 1)) ELSE s

Strip(s) == RStrip(LStrip(s))

\* str.upper().
Upper(s) ==
    [i \in 1..Len(s) |-> IF s[i].k = "L" THEN [s[i] EXCEPT !.w = 1] ELSE s[i]]

\* _safe_str: str(v).strip(), the empty string for None.
safe_str(v) == IF v.t = "none" THEN <<>> ELSE Strip(PyStr(v))

\* GROUP_RE.search(s): letters or hyphens, then two or three digits.
GROUP_RE(s) ==
    \E i \in 1..(Len(s) - 1) :
        s[i].k \in {"L", "-"} /\ s[i + 1].k = "D" /\ s[i + 1].w >= 2

\* DATE_CELL_RE.match(s): D.M.Y with '.', '-' or '/' between.
DATE_CELL_RE(s) ==
    LET DateSeps == {".", "-", "/"} IN
    /\ Len(s) = 5
    /\ s[1].k = "D" /\ s[1].w \in 1..2
    /\ s[2].k \in DateSeps
    /\ s[3].k = "D" /\ s[3].w \in 1..2
    /\ s[4].k \in DateSeps
    /\ s[5].k = "D" /\ s[5].w \in 2..4

\* datetime.date(y, m, d) accepts the date.
ValidDate(y, m, d) ==
    LET DaysIn ==
            IF m \in {4, 6, 9, 11} THEN 30
            ELSE IF m /= 2 THEN 31
            ELSE IF y % 4 = 0 /\ (y % 100 /= 0 \/ y % 400 = 0) THEN 29
            ELSE 28
    IN  y \in 1..9999 /\ m \in 1..12 /\ d \in 1..DaysIn

\* The date branch of parse_excel's row loop, on the string _safe_str made
\* of the date cell: a string is no datetime and no date, so the pattern
\* decides; no match and an impossible date skip the row.
RowDate(date_val) ==
    IF ~DATE_CELL_RE(date_val) THEN None
    ELSE LET year == IF date_val[5].v < 100 THEN date_val[5].v + 2000
                     ELSE date_val[5].v
         IN  IF ValidDate(year, date_val[3].v, date_val[1].v)
             THEN Some([y |-> year, m |-> date_val[3].v, d |-> date_val[1].v])
             ELSE None

\* datetime.strptime(s.strip(), "%H:%M"): the minutes since midnight.
HourMinute(s) ==
    LET t == Strip(s) IN
    IF /\ Len(t) = 3
       /\ t[1].k = "D" /\ t[1].w \in 1..2 /\ t[1].v <= 23
       /\ t[2].k = ":"
       /\ t[3].k = "D" /\ t[3].w \in 1..2 /\ t[3].v <= 59
    THEN Some(t[1].v * 60 + t[3].v)
    ELSE None

\* _parse_time: two parts around one dash (U+2010, U+2013, U+2014 or '-'),
\* each H:M; else it raises.
parse_time(cell_value) ==
    LET TimeDashes == {"hyphen2010", "endash", "emdash", "-"}
        at == {i \in 1..Len(cell_value) : cell_value[i].k \in TimeDashes} IN
    IF Cardinality(at) /= 1 THEN None
    ELSE LET i == CHOOSE i \in at : TRUE
             t1 == HourMinute(SubSeq(cell_value, 1, i - 1))
             t2 == HourMinute(SubSeq(cell_value, i + 1, Len(cell_value)))
         IN  IF t1 = None \/ t2 = None THEN None ELSE Some(<<t1[1], t2[1]>>)

\* ------------------------------------------------- parse_excel, row by row
\* iter_rows(min_row=1, max_row=10): the rows searched for a group code.
HeaderScan == 10

\* any(GROUP_RE.search(str(cell or "")) for cell in row).
RowHasToken(row) ==
    \E c \in 1..Len(row) :
        GROUP_RE(IF row[c].t = "none" THEN <<>> ELSE PyStr(row[c]))

\* header_row_idx: with values_only=True a row is a tuple of values, no
\* value has a .row, so the index is 1 whichever row held the code; None
\* when none of the rows searched holds one.
header_row_idx(ws) ==
    IF \E k \in 1..Len(ws) : k <= HeaderScan /\ RowHasToken(ws[k])
    THEN Some(1) ELSE None

\* One turn of the row loop: the Lesson the row yields, None for a row that
\* is skipped.
RowLesson(row) ==
    LET date_val == safe_str(row[1])
        time_val == safe_str(row[2])
        subject_val == safe_str(row[3])
        teacher_val == safe_str(row[4])
        room_val == safe_str(row[5])
        group_val == safe_str(row[6])
        when == RowDate(date_val)
        times == parse_time(time_val)
    IN  IF date_val = <<>> \/ time_val = <<>> \/ subject_val = <<>>
              \/ group_val = <<>>
        THEN None
        ELSE IF when = None \/ times = None THEN None
        ELSE Some(Lesson(Upper(group_val), when[1], times[1][1], times[1][2],
                         subject_val,
                         IF teacher_val = <<>> THEN None ELSE Some(teacher_val),
                         IF room_val = <<>> THEN None ELSE Some(room_val)))

\* The lessons of rows k.. of the worksheet, in row order; row is history:
\* the row a lesson came from.
RECURSIVE LessonsFrom(_, _)
LessonsFrom(ws, k) ==
    IF k > Len(ws) THEN <<>>
    ELSE LET got == RowLesson(ws[k]) IN
         (IF got = None THEN <<>> ELSE <<[row |-> k, lesson |-> got[1]]>>)
            \o LessonsFrom(ws, k + 1)

\* parse_excel on the rows of the active worksheet.
parse_sheet(ws) ==
    IF header_row_idx(ws) = None
    THEN [exc |-> Some("RuntimeError"), v |-> <<>>]
    ELSE [exc |-> None, v |-> LessonsFrom(ws, header_row_idx(ws)[1] + 1)]

\* The rows a worksheet is made of: a title, a row with only a group code,
\* data rows whose date is a text with each separator, a datetime and a
\* date, and one data row without a group-code token.  Their times are a
\* range around an en dash and one around a hyphen.
RowKinds ==
    LET EnDashTime ==
            StrCell(<<D(10, 2), P(":"), D(30, 2), P("endash"), D(12, 2),
                      P(":"), D(5, 2)>>)
        HyphenTime ==
            StrCell(<<D(8, 1), P(":"), D(30, 2), P(" "), P("-"), P(" "),
                      D(10, 2), P(":"), D(5, 2)>>)
        GroupCell == StrCell(<<L(4, FALSE), D(21, 2)>>)
        BareGroupCell == StrCell(<<L(4, TRUE)>>)
        DataRow(date_cell, time_cell, group_cell) ==
            <<date_cell, time_cell, StrCell(<<L(2, TRUE)>>),
              StrCell(<<L(3, TRUE)>>), NoneCell, group_cell>>
    IN  { <<StrCell(<<L(1, TRUE)>>), NoneCell, NoneCell, NoneCell, NoneCell,
            NoneCell>>,
          <<NoneCell, NoneCell, NoneCell, NoneCell, NoneCell, GroupCell>>,
          DataRow(StrCell(<<D(2, 1), P("."), D(9, 1), P("."), D(24, 2)>>),
                  EnDashTime, GroupCell),
          DataRow(StrCell(<<D(5, 2), P("-"), D(9, 2), P("-"), D(24, 2)>>),
                  EnDashTime, GroupCell),
          DataRow(StrCell(<<D(6, 1), P("/"), D(9, 1), P("/"), D(2024, 4)>>),
                  HyphenTime, GroupCell),
          DataRow(DatetimeCell(2024, 9, 3), EnDashTime, GroupCell),
          DataRow(DateCell(2024, 9, 4), EnDashTime, GroupCell),
          DataRow(StrCell(<<D(7, 1), P("."), D(9, 1), P("."), D(24, 2)>>),
                  EnDashTime, BareGroupCell) }

\* The worksheets of 1..MaxRows rows.
Sheets == UNION {[1..n -> RowKinds] : n \in 1..MaxRows}

\* parse_excel reads the worksheet in hand.
ParseSheet == CalcReturn("parse_excel", parse_sheet(calc.arg))

SpecExcel == CalcInit("parse_excel", Sheets) /\ [][ParseSheet]_vars

\* ------------------------------------------- _df_to_lessons, row by row
\* The words of the column names, and the letters TIME_RE spells out.
GroupCodeWord == 10
GroupWord == 11
DateWord == 12
TimeWord == 13
SubjectWord == 14
LetterD == 20
LetterDD == 21
LettersS == 22

Name(word, upper) == <<L(word, upper)>>

\* str.lower().
lower(s) ==
    [i \in 1..Len(s) |-> IF s[i].k = "L" THEN [s[i] EXCEPT !.w = 0] ELSE s[i]]

\* df.rename(columns={c.lower().strip(): c for c in df.columns}): the
\* mapping goes from the lowered name to the name as written (the last
\* such column wins), so a column is relabelled only when its label is
\* the lowered form of a column's name.
RenameLowered(columns) ==
    [i \in 1..Len(columns) |->
        LET from == {j \in 1..Len(columns) :
                        lower(Strip(columns[j])) = columns[i]}
        IN  IF from = {} THEN columns[i]
            ELSE columns[CHOOSE j \in from : \A m \in from : m <= j]]

\* if "group_code" not in df and "group" in df: group becomes group_code.
RenameGroup(columns) ==
    LET labels == {columns[i] : i \in 1..Len(columns)} IN
    IF Name(GroupCodeWord, FALSE) \notin labels
          /\ Name(GroupWord, FALSE) \in labels
    THEN [i \in 1..Len(columns) |->
            IF columns[i] = Name(GroupWord, FALSE)
            THEN Name(GroupCodeWord, FALSE) ELSE columns[i]]
    ELSE columns

Required ==
    {Name(GroupCodeWord, FALSE), Name(DateWord, FALSE),
     Name(TimeWord, FALSE), Name(SubjectWord, FALSE)}

\* TIME_RE.match(s).  The pattern is a raw string with doubled
\* backslashes, so `\\d{1,2}` is a backslash and one or two letters d, and
\* `\\s*` a backslash and any number of letters s: the text it matches
\* begins \d:\dd\ [s..] dash \ [s..] \d:\dd.
SheetDashes == {"endash", "emdash", "-"}

IsWord(tok, words) == tok.k = "L" /\ tok.v \in words

RECURSIVE DropWord(_, _)
DropWord(s, words) ==
    IF s /= <<>> /\ IsWord(s[1], words) THEN Tail(s) ELSE s

TIME_RE(s) ==
    /\ Len(s) >= 5
    /\ s[1].k = "backslash" /\ IsWord(s[2], {LetterD, LetterDD})
    /\ s[3].k = ":"
    /\ s[4].k = "backslash" /\ IsWord(s[5], {LetterDD})
    /\ LET a == SubSeq(s, 6, Len(s))
           b == IF a /= <<>> /\ a[1].k = "backslash"
                THEN DropWord(Tail(a), {LettersS}) ELSE <<>>
           c == IF b /= <<>> /\ b[1].k \in SheetDashes THEN Tail(b) ELSE <<>>
           e == IF c /= <<>> /\ c[1].k = "backslash"
                THEN DropWord(Tail(c), {LettersS}) ELSE <<>>
       IN  /\ Len(e) >= 5
           /\ e[1].k = "backslash" /\ IsWord(e[2], {LetterD, LetterDD})
           /\ e[3].k = ":"
           /\ e[4].k = "backslash" /\ IsWord(e[5], {LetterDD})

\* One turn of the row loop: "skip" when TIME_RE does not match; when it
\* does, the groups it captured begin with a backslash and int() raises
\* ValueError, so the lines after it are never reached.
SheetRow(columns, row) ==
    LET label == Name(TimeWord, FALSE)
        at == CHOOSE i \in 1..Len(columns) :
                 columns[i] = label /\ \A m \in 1..(i - 1) : columns[m] /= label
    IN  IF ~TIME_RE(PyStr(row[at])) THEN "skip" ELSE "ValueError"

\* _df_to_lessons: the columns, then the rows; the first row that raises
\* ends the call.
df_to_lessons(df) ==
    LET columns == RenameGroup(RenameLowered(df.columns))
        labels == {columns[i] : i \in 1..Len(columns)}
    IN  IF ~(Required \subseteq labels)
        THEN [exc |-> Some("ValueError"), v |-> <<>>]
        ELSE IF \E k \in 1..Len(df.rows) :
                   SheetRow(columns, df.rows[k]) = "ValueError"
        THEN [exc |-> Some("ValueError"), v |-> <<>>]
        ELSE [exc |-> None, v |-> <<>>]

\* The header lines of a table: the names as required, with group for
\* group_code, and with capitals.
Headers ==
    { <<Name(GroupCodeWord, FALSE), Name(DateWord, FALSE),
        Name(TimeWord, FALSE), Name(SubjectWord, FALSE)>>,
      <<Name(GroupWord, FALSE), Name(DateWord, FALSE),
        Name(TimeWord, FALSE), Name(SubjectWord, FALSE)>>,
      <<Name(GroupCodeWord, FALSE), Name(DateWord, TRUE),
        Name(TimeWord, FALSE), Name(SubjectWord, FALSE)>>,
      <<Name(GroupWord, TRUE), Name(DateWord, TRUE),
        Name(TimeWord, TRUE), Name(SubjectWord, TRUE)>> }

\* The tables of 0..MaxRows - 1 rows under each header line.  A row is
\* group, date (02.09.2024), time, subject; its time is 10:30-12:05 around
\* each dash, a word, or the text TIME_RE spells out.
Frames ==
    LET Clock(dash) ==
            StrCell(<<D(10, 2), P(":"), D(30, 2), P(dash), D(12, 2), P(":"),
                      D(5, 2)>>)
        SheetTimes ==
            {Clock(dash) : dash \in SheetDashes} \cup
            { StrCell(<<L(1, FALSE)>>),
              StrCell(<<P("backslash"), L(LetterD, FALSE), P(":"),
                        P("backslash"), L(LetterDD, FALSE), P("backslash"),
                        P("-"), P("backslash"), P("backslash"),
                        L(LetterD, FALSE), P(":"), P("backslash"),
                        L(LetterDD, FALSE)>>) }
        SheetDataRow(time_cell) ==
            <<StrCell(<<L(4, FALSE), D(21, 2)>>),
              StrCell(<<D(2, 2), P("."), D(9, 2), P("."), D(2024, 4)>>),
              time_cell, StrCell(<<L(2, TRUE)>>)>>
    IN  {[columns |-> h, rows |-> r] :
            h \in Headers,
            r \in UNION {[1..n -> {SheetDataRow(t) : t \in SheetTimes}] :
                            n \in 0..(MaxRows - 1)}}

\* _df_to_lessons reads the table in hand.
ReadFrame == CalcReturn("df_to_lessons", df_to_lessons(calc.arg))

SpecSheet == CalcInit("df_to_lessons", Frames) /\ [][ReadFrame]_vars

\* The steps of a call of process p that is under way.  The event loop runs
\* every coroutine that can go on, and each network call carries a timeout
\* (20 s for the listing, 60 s for a download), so a step that stays enabled
\* is taken.
Step(p) ==
    \/ ListFiles(p)
    \/ Download(p)
    \/ UpsertSelect(p)
    \/ UpsertFlush(p)
    \/ LoadStep(p)
    \/ Commit(p)
    \/ CtxExit(p)
    \/ SheetFetch(p)
    \/ BotDownload(p)

\* The sync runs alone, scheduled and commanded by an admin, with the site
\* replacing a listed file.
SyncNext ==
    \/ \E u \in Urls, c \in Workbooks \ {"X"} : Publish(u, c)
    \/ CronSync
    \/ \E sender \in ADMIN_IDS : AdminSyncCmd(sender)
    \/ \E p \in Procs : ListFiles(p)
    \/ \E p \in Procs : Download(p)
    \/ \E p \in Procs : UpsertSelect(p)
    \/ \E p \in Procs : UpsertFlush(p)
    \/ \E p \in Procs : LoadStep(p)
    \/ \E p \in Procs : Commit(p)
    \/ \E p \in Procs : CtxExit(p)

\* Calls do not overlap here, so at most one process has a step to take.
FairSpec == Init /\ [][SyncNext]_vars /\ WF_vars(\E p \in Procs : Step(p))

\* ------------------------------------------------------------- properties
\* The committed Lesson rows that reference SourceFile row sf.
LessonsOf(sf) == {l \in store.lesson : l.source_id = Some(sf.id)}

\* Batches of sync carry the number of their link, those of the
\* administrative import carry 0.
SyncBatch(bid) == bid[2] >= 1

\* The batch went through: its load did not raise.
Loaded(bid) == \A f \in failedBatches : f[1] /= bid

\* C1: over sync runs a content hash has one SourceFile row, and the Lesson
\* rows that reference it all come from one load: a run that finds the hash
\* present inserts none.
C1_SyncNeverReloads ==
    \A sf \in store.source_file :
        /\ \A x \in store.source_file : x.sha256 = sf.sha256 => x = sf
        /\ \A a, b \in LessonsOf(sf) :
              /\ SyncBatch(a.bid) /\ Loaded(a.bid)
              /\ SyncBatch(b.bid) /\ Loaded(b.bid)
              => a.bid = b.bid

\* C2: an administrative import repeated under the same dedup key leaves one
\* SourceFile row for the key and the Lesson rows of the first import.
C2_AdminImportIdempotent ==
    \A sf \in store.source_file :
        /\ \A x \in store.source_file : x.sha256 = sf.sha256 => x = sf
        /\ \A a, b \in LessonsOf(sf) :
              /\ ~SyncBatch(a.bid) /\ Loaded(a.bid)
              /\ ~SyncBatch(b.bid) /\ Loaded(b.bid)
              => a.bid = b.bid

\* C3: no Lesson row of a batch that failed on an unknown group code is ever
\* committed.
C3_FailedBatchNeverCommitted ==
    \A l \in store.lesson : <<l.bid, "RuntimeError">> \notin failedBatches

\* C4: every committed Lesson row points at a seeded Group row with the
\* lesson's code known to the store before the import, and no import adds a
\* Group row, committed or not.
C4_LessonsReferenceSeededGroups ==
    /\ store.group = SeedGroups
    /\ \A s \in Procs : txn[s].group = {}
    /\ \A l \in store.lesson : \E g \in SeedGroups : g.id = l.group_id

\* C4's case: lessons are committed, and a batch met an unknown group code.
C4_Witness ==
    /\ store.lesson /= {}
    /\ \E f \in failedBatches : f[2] = "RuntimeError"

\* sync is in its loop over the links.
InLoop(p) ==
    /\ InSync(run[p])
    /\ run[p].pc \in {"download", "upsert_select", "upsert_flush", "load",
                       "commit"}

\* sync listed its links and returned.
Returned(p) ==
    /\ InSync(run[p])
    /\ run[p].pc \in {"idle", "ctx_exit"}
    /\ run[p].syncRaised = None
    /\ run[p].sender \in ADMIN_IDS

\* Every link so far was downloaded once, in listing order, and all but
\* possibly the one in hand have their outcome.
C5_OncePerLink ==
    \A p \in Procs :
        InSync(run[p]) =>
            /\ Len(run[p].downloads) <= Len(run[p].links)
            /\ \A k \in 1..Len(run[p].downloads) :
                  run[p].downloads[k].link = run[p].links[k]
            /\ Len(run[p].outcome) <= Len(run[p].downloads)
            /\ Len(run[p].downloads) <= Len(run[p].outcome) + 1
            /\ \A k \in 1..Len(run[p].outcome) :
                  run[p].outcome[k] \in {"skipped", "loaded", "failed"}
            /\ Returned(p) =>
                  /\ Len(run[p].downloads) = Len(run[p].links)
                  /\ Len(run[p].outcome) = Len(run[p].links)

\* C5: in a sync run every discovered link is downloaded exactly once and
\* gets its outcome, whatever happened to the links before it, and the run
\* ends.
C5_EveryLinkProcessed ==
    /\ []C5_OncePerLink
    /\ (\E p \in Procs : InLoop(p)) ~> (\E p \in Procs : Returned(p))

\* C5's case: a run returned after its first link failed and its second was
\* loaded.
C5_Witness ==
    \E p \in Procs :
        /\ Returned(p)
        /\ run[p].outcome = <<"failed", "loaded">>

\* C6: no error raised inside a sync run leaves sync.
C6_NothingEscapesSync ==
    \A p \in Procs : run[p].syncRaised = None

\* C7: at most one committed SourceFile row per sha256, whatever the
\* interleaving of the runs.
C7_OneRowPerHash ==
    \A a, b \in store.source_file : a.sha256 = b.sha256 => a = b

\* C7's case: a run's insert met a row of the same sha256 that the other run
\* had added after the first one's select, and a row is committed.
C7_Witness ==
    /\ store.source_file /= {}
    /\ \E p \in Procs :
          run[p].upsert /= None /\ run[p].upsert[1].lost

\* C8: the run that loses the race on a sha256 ends its upsert as "already
\* known", the existing row's id returned and nothing raised.
C8_LoserSeesAlreadyKnown ==
    \A p \in Procs :
        (run[p].upsert /= None /\ run[p].upsert[1].lost) =>
            /\ run[p].upsert[1].exc = None
            /\ run[p].upsert[1].ret /= None

\* C9: a listed url ingested before and now serving other (sound) bytes gets
\* a new SourceFile row and its lessons loaded.
C9_ChangedFileIsAdded ==
    \A p \in Procs :
        InSync(run[p]) =>
            \A k \in 1..Len(run[p].outcome) :
                LET d == run[p].downloads[k] IN
                ( /\ d.bytes /= None
                  /\ d.bytes[1] \in {"A", "B"}
                  /\ \E old \in store.source_file :
                        /\ old.url = LinkUrl(d.link)
                        /\ old.sha256 /= sha256_path(d.bytes[1]) )
                => /\ run[p].outcome[k] = "loaded"
                   /\ \E new \in store.source_file :
                         new.sha256 = sha256_path(d.bytes[1])

\* The uploads and the sheet commands C10 is about.
BadUploadNames == { <<"notes", "txt">>, <<"xlsx">>, <<"uploaded_file">> }
BadSheetArgs ==
    { None, Some(<<>>),
      Some(<<"https:", "", "docs.google.com", "spreadsheets", "d", "Id_1">>),
      Some(<<"https:", "", "docs.google.com", "spreadsheets", "d", "", "edit">>),
      Some(<<"https:", "", "guu.ru", "student", "schedule", "">>) }

BadUpload(r) ==
    r.kind = "upload" /\ r.sender \in ADMIN_IDS /\ r.name[1] \in BadUploadNames
BadSheet(r) ==
    r.kind = "import_sheet" /\ r.sender \in ADMIN_IDS /\ r.args \in BadSheetArgs

\* C10: an admin's upload with an extension other than .xlsx and .csv, and an
\* admin's /admin_import_sheet without a shared-sheet url, end at once with
\* their message, nothing downloaded and no row added, committed or pending.
C10_RejectedAtOnce ==
    [][ (nruns' = nruns + 1 /\ (BadUpload(run'["adm"]) \/ BadSheet(run'["adm"])))
        => /\ store' = store
           /\ txn' = txn
           /\ run'["adm"].pc = "idle"
           /\ run'["adm"].raised = None
           /\ run'["adm"].replies \in
                 IF BadUpload(run'["adm"]) THEN {<<Reply("unsupported")>>}
                 ELSE {<<Reply("no_url")>>, <<Reply("not_a_sheet")>>} ]_vars

\* C10's case: an admin's notes.txt was turned down while the store held
\* lessons.
C10_Witness ==
    /\ BadUpload(run["adm"])
    /\ run["adm"].replies = <<Reply("unsupported")>>
    /\ store.lesson /= {}

\* An admin's import call (upload or sheet url) that got past the download
\* of its input and is over.
ImportOver(r) ==
    /\ r.kind \in {"upload", "import_sheet"}
    /\ r.sender \in ADMIN_IDS
    /\ r.pc = "idle"
    /\ r.raised /= Some("TelegramNetworkError")

\* C11: an admin's import ends with the count of lessons or with a short
\* error message as its last reply, and no exception leaves the handler:
\* not for a missing header, an unknown group, nor a constraint violation.
C11_ImportAlwaysAnswers ==
    ImportOver(run["adm"]) =>
        /\ run["adm"].raised = None
        /\ run["adm"].replies /= <<>>
        /\ run["adm"].replies[Len(run["adm"].replies)].msg \in
              {"imported", "parse_error", "error", "unsupported",
               "no_url", "not_a_sheet"}

\* The admin handlers' calls.
AdminKinds == {"admin_help", "admin_sync", "import_sheet", "upload"}

\* C12: a call of an admin handler by a sender outside ADMIN_IDS returns at
\* once, with no reply, nothing downloaded and no row added, committed or
\* pending, whatever its arguments or document.
C12_StrangerGetsNothing ==
    [][ ( /\ nruns' = nruns + 1
          /\ run'["adm"].runNo = nruns'
          /\ run'["adm"].kind \in AdminKinds
          /\ run'["adm"].sender \notin ADMIN_IDS )
        => /\ store' = store
           /\ txn' = txn
           /\ sess' = sess
           /\ run'["adm"].pc = "idle"
           /\ run'["adm"].replies = <<>>
           /\ run'["adm"].raised = None
           /\ run'["adm"].bytes = None
           /\ run'["adm"].downloads = <<>> ]_vars

\* C12's case: a stranger sent a well-named workbook while the store held
\* lessons, and the call is over.
C12_Witness ==
    /\ run["adm"].kind = "upload"
    /\ run["adm"].sender \notin ADMIN_IDS
    /\ run["adm"].name = Some(<<"sched", "xlsx">>)
    /\ run["adm"].pc = "idle"
    /\ store.lesson /= {}

\* The committed user_group rows of user u that are active.
ActiveOf(u) == {x \in bot.user_group : x.user_id = u /\ x.is_active}

\* C13: whatever groups the users select, and however the selections
\* overlap, no user has two active UserGroup rows.
C13_OneActiveGroup ==
    \A u \in Users : Cardinality(ActiveOf(u)) <= 1

\* C13's case: a user selected a second group, the first row is inactive
\* and the second active.
C13_Witness ==
    \E u \in Users :
        /\ Cardinality(ActiveOf(u)) = 1
        /\ \E x \in bot.user_group : x.user_id = u /\ ~x.is_active

\* A view call of the given kind by a user with an active group is over.
ViewOver(h, kind) == h.kind = kind /\ h.pc = "idle" /\ h.gid /= None

\* C14: the week text holds one block per day of monday..monday+5 that had
\* lessons, in date order, and is the empty-week sentinel when none had.
C14_WeekBlocks ==
    \A t \in Tasks :
        ViewOver(bot.h[t], "week") =>
            LET h == bot.h[t] IN
            /\ h.raised = None
            /\ Len(h.replies) = 1
            /\ h.seen \subseteq h.monday..(h.monday + 5)
            /\ h.seen = {} => h.replies[1] = EmptyWeekText
            /\ h.seen /= {} =>
                  /\ h.replies[1].kind = "week"
                  /\ {h.replies[1].days[k].date :
                         k \in 1..Len(h.replies[1].days)} = h.seen
                  /\ \A j, k \in 1..Len(h.replies[1].days) :
                        j < k => h.replies[1].days[j].date
                                   < h.replies[1].days[k].date

\* C15: the day text lists the Lesson rows stored for the group and the
\* date when it is asked for: the no-lessons line only when there are none,
\* else the rows, each once, by start_time.
C15_DayListsLessons ==
    \A t \in Tasks :
        ViewOver(bot.h[t], "today") =>
            LET h == bot.h[t] IN
            /\ h.raised = None
            /\ Len(h.replies) = 1
            /\ h.seen = {} <=> h.replies[1].kind = "none"
            /\ h.seen /= {} =>
                  /\ h.replies[1].kind = "day"
                  /\ {l.id : l \in LessonsOn(h.gid[1], h.d)} =
                       {h.replies[1].lines[k].id :
                          k \in 1..Len(h.replies[1].lines)}
                  /\ Len(h.replies[1].lines) =
                       Cardinality(LessonsOn(h.gid[1], h.d))
                  /\ \A j, k \in 1..Len(h.replies[1].lines) :
                        j < k => h.replies[1].lines[j].start_time
                                   <= h.replies[1].lines[k].start_time

\* The committed Lesson rows of batch b.
BatchRows(b) == {l \in store.lesson : l.bid = b}

FromHeaderless(t, x) ==
    CASE t = "lesson" -> x.date = 4
      [] t = "teacher" -> x.name = "Petrov"
      [] t = "room" -> x.building = <<"N">>
      [] OTHER -> FALSE

\* C17: parse_excel fails on a workbook without a group token in its first
\* rows with the header-not-found error; a sync run logs the file as
\* failed; and no Lesson, Teacher or Room row of that workbook is committed,
\* or pending in a session, whether it came by sync or by upload.
C17_HeaderlessAddsNothing ==
    /\ parse_excel("N").exc = Some("RuntimeError")
    /\ \A t \in {"lesson", "teacher", "room"} :
          /\ \A x \in store[t] : ~FromHeaderless(t, x)
          /\ \A s \in Procs : \A x \in txn[s][t] : ~FromHeaderless(t, x)
    /\ \A p \in Procs :
          InSync(run[p]) =>
             \A k \in 1..Len(run[p].outcome) :
                run[p].downloads[k].bytes = Some("N")
                   => run[p].outcome[k] = "failed"

\* C17's case: a sync run met the headerless workbook behind its second
\* link after it had loaded the first.
C17_Witness ==
    \E p \in Procs :
        /\ InSync(run[p])
        /\ Len(run[p].outcome) = 2
        /\ run[p].downloads[2].bytes = Some("N")
        /\ run[p].outcome = <<"loaded", "failed">>
        /\ store.lesson /= {}

\* The positions of a sync run inside one file, after its download began.
InFile == {"upsert_select", "upsert_flush", "load", "commit"}

\* The order of the steps of one file, as pairs of successive positions.
FileOrder ==
    {<<"download", "upsert_select">>,
     <<"upsert_select", "upsert_flush">>,
     <<"upsert_select", "load">>, <<"upsert_select", "commit">>,
     <<"upsert_flush", "load">>, <<"upsert_flush", "commit">>,
     <<"load", "load">>, <<"load", "commit">>}

\* What the run holds at each position of a file: the hash before the
\* upsert, nothing parsed before the upsert returned, the parsed rows and
\* the row id before the load; and one file at most without an outcome.
FileInOrder(r) ==
    /\ r.pc \in InFile =>
          /\ r.bytes /= None
          /\ r.meta = Some([url |-> LinkUrl(r.links[r.i]),
                            sha256 |-> sha256_path(r.bytes[1])])
          /\ Len(r.downloads) = Len(r.outcome) + 1
          /\ r.downloads[r.i].bytes = r.bytes
    /\ r.pc \in {"upsert_select", "upsert_flush"} =>
          r.lessons = <<>> /\ r.sfId = None
    /\ r.pc \in {"load", "commit"} =>
          /\ r.sfId /= None /\ TruthyInt(r.sfId)
          /\ parse_excel(r.bytes[1]).exc = None
          /\ r.lessons = parse_excel(r.bytes[1]).v
    /\ r.pc = "download" =>
          Len(r.downloads) = Len(r.outcome) /\ Len(r.outcome) = r.i - 1
    /\ r.pc \notin InFile \cup {"download"} =>
          Len(r.downloads) = Len(r.outcome)

\* One step of a sync run: the next position of the same file, or the
\* file's outcome and then the next link or the end of the run.
FileStep(r, r2) ==
    \/ /\ r2.outcome = r.outcome
       /\ r2.i = r.i
       /\ <<r.pc, r2.pc>> \in FileOrder
    \/ /\ Len(r2.outcome) = Len(r.outcome) + 1
       /\ \/ r2.pc = "download" /\ r2.i = r.i + 1
          \/ r2.pc \notin InFile \cup {"download"} /\ r.i = Len(r.links)

\* C18: a sync run takes each file through download, hash, upsert, then
\* the skip or the parse followed by the load, in that order: no file is
\* parsed before its hash was looked up, none is loaded before it was
\* parsed, and at most one file of a run is between its download and its
\* outcome.
C18_StepsInOrder ==
    /\ [](\A p \in Procs : InSync(run[p]) => FileInOrder(run[p]))
    /\ [][\A p \in Procs :
            (/\ InSync(run[p])
             /\ run[p].pc \in InFile \cup {"download"}
             /\ run'[p] /= run[p])
               => FileStep(run[p], run'[p])]_vars

\* C18's case: a run that has the outcome of its first file is loading the
\* parsed rows of its second.
C18_Witness ==
    \E p \in Procs :
        /\ InSync(run[p])
        /\ run[p].pc = "load"
        /\ run[p].i = 2
        /\ Len(run[p].outcome) = 1
        /\ run[p].j >= 1

\* The smaller of two numbers.
Min(a, b) == IF a <= b THEN a ELSE b

\* C19: a sync called with limit = n, n >= 0, processes at most n of the
\* listed links, the first n in listing order, so none for limit = 0; a
\* sync called without a limit processes every listed link.
C19_LimitCaps ==
    \A p \in Procs :
        LET r == run[p] IN
        InSync(r) =>
           /\ \A k \in 1..Len(r.downloads) : r.downloads[k].link = Links[k]
           /\ r.limit /= None => Len(r.downloads) <= r.limit[1]
           /\ Returned(p) =>
                 Len(r.downloads) =
                    IF r.limit = None THEN Len(Links)
                    ELSE Min(r.limit[1], Len(Links))

\* The rows process p's batch in hand has added so far.
BatchInHand(p) ==
    {x \in txn[p].lesson : x.bid = Bid(run[p])}

Hyphens(s) == {k \in 1..Len(s) : s[k] = "-"}

\* C21: a room name with a hyphen is split at its first hyphen into
\* (building, number); a name without one gives the empty building and
\* the whole name as number: 101 gives ("", 101), B-204 gives (B, 204).
C21_RoomSplitAtFirstHyphen ==
    /\ RoomKey(<<"101">>) = [building |-> <<>>, number |-> <<"101">>]
    /\ RoomKey(<<"B", "-", "204">>) =
          [building |-> <<"B">>, number |-> <<"204">>]
    /\ (calc.fn = "room_key" /\ calc.out /= <<>>) =>
          LET name == calc.arg
              key == calc.out[1]
          IN  IF Hyphens(name) = {}
              THEN key.building = <<>> /\ key.number = name
              ELSE /\ Hyphens(key.building) = {}
                   /\ name = key.building \o <<"-">> \o key.number

\* C21's case: a name with two hyphens was split.
C21_Witness ==
    /\ calc.fn = "room_key"
    /\ calc.out /= <<>>
    /\ Cardinality(Hyphens(calc.arg)) = 2
    /\ calc.out[1].building /= <<>>

\* The first row of the worksheet that holds a group-code token.
FirstTokenRow(ws) ==
    CHOOSE k \in 1..Len(ws) :
        RowHasToken(ws[k]) /\ \A m \in 1..(k - 1) : ~RowHasToken(ws[m])

\* C22: when row k is the first of the first 10 rows to hold a group-code
\* token, parse_excel makes lessons of the rows after row k only: no row
\* at or before the header row yields a Lesson.
C22_NoLessonUpToHeader ==
    (calc.fn = "parse_excel" /\ calc.out /= <<>>
        /\ header_row_idx(calc.arg) /= None) =>
       \A i \in 1..Len(calc.out[1].v) :
           calc.out[1].v[i].row > FirstTokenRow(calc.arg)

\* The cells a data row needs besides the date are there.
RestPresent(row) ==
    /\ parse_time(safe_str(row[2])) /= None
    /\ safe_str(row[3]) /= <<>>
    /\ safe_str(row[6]) /= <<>>

\* The dates of the lessons that came from row k.
DatesOfRow(out, k) ==
    {out[i].lesson.date : i \in {j \in 1..Len(out) : out[j].row = k}}

\* C23: a data row with time range, subject and group present is not
\* skipped when its date cell holds a native date or datetime, and yields
\* a Lesson of that date; nor when it holds a text D.M.YY with '.', '-' or
\* '/' between, and then the Lesson's year is 2000 + YY.
C23_DateCellsAccepted ==
    (calc.fn = "parse_excel" /\ calc.out /= <<>>
        /\ calc.out[1].exc = None) =>
       \A k \in (header_row_idx(calc.arg)[1] + 1)..Len(calc.arg) :
           LET row == calc.arg[k]
               text == safe_str(row[1])
           IN  RestPresent(row) =>
                 /\ row[1].t \in {"date", "datetime"} =>
                       DatesOfRow(calc.out[1].v, k) =
                          {[y |-> row[1].y, m |-> row[1].m, d |-> row[1].d]}
                 /\ (row[1].t = "str" /\ DATE_CELL_RE(text)
                        /\ text[5].w = 2) =>
                       DatesOfRow(calc.out[1].v, k) =
                          {[y |-> 2000 + text[5].v, m |-> text[3].v,
                            d |-> text[1].v]}

\* The time of day H:MM, a hyphen, an en dash or an em dash, H:MM.
ClockRange(s) ==
    /\ Len(s) = 7
    /\ \A i \in {1, 3, 5, 7} : s[i].k = "D"
    /\ s[1].w \in 1..2 /\ s[5].w \in 1..2 /\ s[3].w = 2 /\ s[7].w = 2
    /\ s[2].k = ":" /\ s[6].k = ":"
    /\ s[4].k \in {"-", "endash", "emdash"}

\* The table has the required columns, whatever the case of their names
\* and with group standing for group_code.
HasRequired(columns) ==
    LET lowered == {lower(Strip(columns[i])) : i \in 1..Len(columns)} IN
    /\ {Name(DateWord, FALSE), Name(TimeWord, FALSE),
        Name(SubjectWord, FALSE)} \subseteq lowered
    /\ lowered \cap {Name(GroupCodeWord, FALSE), Name(GroupWord, FALSE)}
          /= {}

\* C24: the shared-sheet parser finds the required columns whatever the
\* case of their names, with group accepted for group_code; a row whose
\* time is H:MM, a dash, H:MM yields a Lesson, and only the rows whose time
\* has not this shape are skipped.
C24_SheetRowsParsed ==
    (calc.fn = "df_to_lessons" /\ calc.out /= <<>>
        /\ HasRequired(calc.arg.columns)) =>
       /\ calc.out[1].exc = None
       /\ Len(calc.out[1].v) =
             Cardinality({k \in 1..Len(calc.arg.rows) :
                             ClockRange(PyStr(calc.arg.rows[k][3]))})

\* C25: a SourceFile row that sync created for a file is committed only
\* with that file's lessons: when the file's parse or load failed, its row
\* is never committed, neither by a later file's commit nor by the commit
\* at the closing of the session.  Stated of the first call ever started,
\* where every row under a listed url is one the call itself created.
C25_FailedFileNotRecorded ==
    \A p \in Procs :
        (InSync(run[p]) /\ run[p].runNo = 1 /\ nruns = 1) =>
           \A k \in 1..Len(run[p].outcome) :
              (run[p].outcome[k] = "failed"
                  /\ run[p].downloads[k].bytes /= None) =>
                 ~\E sf \in store.source_file :
                     sf.url = LinkUrl(run[p].downloads[k].link)

\* C26: whatever groups a user selects one after the other, each selection
\* succeeds and leaves the group just selected as the user's active group;
\* a third and a later selection succeed like the first two.  Stated of
\* the selections handled by one task while the other never ran, so that
\* they are in sequence.
C26_EverySelectionSucceeds ==
    \A t \in Tasks :
        LET h == bot.h[t] IN
        (/\ h.kind = "set_group"
         /\ h.pc = "idle"
         /\ \A q \in Tasks \ {t} : bot.h[q] = IdleTask) =>
           /\ h.raised = None
           /\ Len(h.replies) = 2
           /\ {x.group_id : x \in ActiveOf(h.user)} = {h.group}

\* The texts cache holds under key: one text, or none.
Cached(cache, key) == {e.text : e \in {x \in cache : x.key = key}}

\* An entry that stays in the cache keeps its text.
KeepsTexts(cache, cache2) ==
    \A e \in cache : Cached(cache2, e.key) \subseteq {e.text}

\* A day asked for while DAY_CACHE holds its key is answered with the text
\* the cache holds, and no query is made.
DayServedFromCache(h, h2) ==
    (h.pc = "day" /\ h2 /= h) =>
       \A text \in Cached(bot.DAY_CACHE, <<h.gid[1], h.d>>) :
          /\ h2.pc /= "fetch"
          /\ h2.raised = None
          /\ h.kind = "today" => h2.replies = <<text>>
          /\ (h.kind = "week" /\ h2.pc = "day") =>
                h2.texts = IF text.kind = "none" THEN h.texts
                           ELSE Append(h.texts, text)

\* A week asked for while WEEK_CACHE holds its key is answered with the
\* text the cache holds.
WeekServedFromCache(h, h2) ==
    (h.pc = "idle" /\ h2 /= h /\ h2.kind = "week" /\ h2.gid /= None) =>
       \A text \in Cached(bot.WEEK_CACHE, <<h2.gid[1], h2.monday>>) :
          h2.pc = "idle" /\ h2.replies = <<text>>

\* C27: from the filling of a DAY_CACHE or WEEK_CACHE entry to its expiry
\* every query for its key gets the text computed when it was filled,
\* whatever lessons imports have committed meanwhile; no step of an import
\* changes or removes a cache entry.
C27_CachedTextServed ==
    [][/\ KeepsTexts(bot.DAY_CACHE, bot'.DAY_CACHE)
       /\ KeepsTexts(bot.WEEK_CACHE, bot'.WEEK_CACHE)
       /\ (store' /= store \/ txn' /= txn \/ run' /= run) =>
             /\ bot'.DAY_CACHE = bot.DAY_CACHE
             /\ bot'.WEEK_CACHE = bot.WEEK_CACHE
       /\ \A t \in Tasks :
             /\ DayServedFromCache(bot.h[t], bot'.h[t])
             /\ WeekServedFromCache(bot.h[t], bot'.h[t])]_vars

\* C27's case: a week was answered from WEEK_CACHE with the empty-week
\* text filled before an import committed lessons of that week, and the
\* week's entry has outlived the day entries it was built from.
C27_Witness ==
    \E t \in Tasks :
        LET h == bot.h[t] IN
        /\ h.kind = "week" /\ h.pc = "idle" /\ h.gid /= None
        /\ h.replies = <<EmptyWeekText>>
        /\ h.texts = <<>> /\ h.i = 0
        /\ WeekDates(h.gid[1], h.monday) /= {}
        /\ Cached(bot.WEEK_CACHE, <<h.gid[1], h.monday>>) = {EmptyWeekText}
        /\ bot.DAY_CACHE = {}

\* The group codes of the lessons of the file behind batch b of process
\* p's call.
CodesOfBatch(p, b) ==
    LET rows == parse_excel(run[p].downloads[b[2]].bytes[1]).v IN
    {rows[k].group_code : k \in 1..Len(rows)}

\* C28: on a store that satisfies the schema's constraints, Group being
\* unique per faculty and code only, the group lookup of a batch does not
\* fail for a code some Group row has, and gives the id of a Group row;
\* only a code no Group row has makes the lookup fail the batch.
C28_KnownCodeResolves ==
    /\ \A l \in store.lesson : \E g \in store.group : g.id = l.group_id
    /\ \A p \in Procs : \A fb \in failedBatches :
          (/\ InSync(run[p])
           /\ fb[1][1] = run[p].runNo
           /\ fb[2] \in {"RuntimeError", "MultipleResultsFound"}) =>
             \E code \in CodesOfBatch(p, fb[1]) :
                 \A g \in store.group : g.code /= code

====
